---- MODULE Spec2Model ----
(***************************************************************************)
(* A model of go-sitepkg's option layer: the option registry (Set*Opt /    *)
(* Get*Opt), the command-path resolver (GetCommandPaths), the config-file  *)
(* reader (ReadConfigFile), the command-line overlay (ProcessCommandLine)  *)
(* and the orchestrator (ConfigureOptions).                                *)
(*                                                                         *)
(* Go strings are TLA+ strings; a Go pointer is a tuple, <<>> for nil and  *)
(* <<v>> for a pointer to a cell holding v; a Go error is "" for nil and   *)
(* a short tag otherwise.                                                  *)
(***************************************************************************)
EXTENDS Integers, Sequences, FiniteSets, TLC

VARIABLES
    Config,        \* var Config = make(Options): canonical name -> Option
    PkgName,       \* PackageInit's pkg_name, "" before PackageInit
    PkgVersion,    \* PackageInit's pkg_version
    Package,       \* PkgName-PkgVersion
    PackageDir,    \* /usr/site/Package
    PackageEtc,    \* PackageDir/etc
    LocalEtc,      \* /etc/opt/PkgName
    ProgramName,   \* path.Base(os.Args[0]) at PackageInit, "" before it
    OsArgs0,       \* os.Args[0] when the paths are resolved ("prog sub1 sub2")
    OsArgs,        \* os.Args[1:], the command-line tokens
    home,          \* os.UserHomeDir(): <<dir>>, or <<>> when it fails
    fs,            \* the file system: path -> the lines of the file there
    statErr,       \* the paths os.Stat fails on for a reason other than absence
    pc,            \* where the program is; "exited" after Exit(0), "aborted"
                   \* when pflag ended the process
    todo,          \* ConfigureOptions: the candidate paths still to visit
    err,           \* the error the last operation returned ("" is nil)
    line_no,       \* ReadConfigFile: the line the last read stopped at
    retArgs,       \* the positional arguments returned
    exitCode,      \* <<code>> once the process has exited
    commandPaths,  \* the result of the last GetCommandPaths call
    Verbose,       \* the convenience globals of ConfigureOptions
    Quiet,
    Quieter,
    Debug,
    shown,         \* what was displayed: "usage", "config", "version"
    host,          \* what ShowPod finds: PodMap, the files and directories,
                   \* the commands, whether pod2text fails, $PAGER
    pod,           \* <<what the last Usage did>>, <<>> before any
    flagCheck,     \* <<the last CheckFlagValue call and its result>>, <<>> before any
    subCommands,   \* history: the sub-command tokens os.Args[0] was built from
    lastDecl,      \* history: the arguments of the last declaration
    prevType,      \* history: the Type of the entry the last declaration replaced
    readLog,       \* history: the ReadConfigFile calls made, in order
    beforeRead,    \* history: Config before the last ReadConfigFile
    afterFiles,    \* history: Config when ProcessCommandLine was entered
    cmdItems       \* history: what the user meant by each command-line item

vars == <<Config, PkgName, PkgVersion, Package, PackageDir, PackageEtc, LocalEtc,
          ProgramName, OsArgs0, OsArgs, home, fs, statErr, pc,
          todo, err, line_no, retArgs, exitCode, commandPaths, Verbose, Quiet,
          Quieter, Debug, shown, subCommands, lastDecl, prevType, readLog,
          beforeRead, afterFiles, cmdItems, host, pod,
          flagCheck>>

(***************************************************************************)
(* Bounds.                                                                 *)
(***************************************************************************)
MaxReads == 2      \* direct ReadConfigFile calls in one run
MaxLines == 3      \* lines of a config file (single-file runs)
MaxLines2 == 2     \* lines of a config file (two-file runs)
MaxArgs == 2       \* items on the command line
MaxFiles == 2      \* config files present among the candidates
MaxSubs == 3       \* sub-commands of an invocation

(***************************************************************************)
(* Strings.                                                                *)
(***************************************************************************)
Char(s, i) == SubSeq(s, i, i)

\* Op(v), with v evaluated once and handed on as a value.
Once(Op(_), v) == CHOOSE r \in {Op(x) : x \in {v}} : TRUE

UpperLetters == "ABCDEFGHIJKLMNOPQRSTUVWXYZ"
LowerLetters == "abcdefghijklmnopqrstuvwxyz"

UpperSet == {Char(UpperLetters, i) : i \in 1..26}
LowerOf == [c \in UpperSet |->
               Char(LowerLetters, CHOOSE i \in 1..26 : Char(UpperLetters, i) = c)]

\* unicode.ToLower on one character (ASCII letters).
LowerChar(c) == IF c \in UpperSet THEN LowerOf[c] ELSE c

RECURSIVE ToLower(_)
\* strings.ToLower
ToLower(s) ==
    IF s = "" THEN "" ELSE LowerChar(Char(s, 1)) \o ToLower(Tail(s))

\* flagCaseInsensitive: every rune of the flag name lowercased.
flagCaseInsensitive(name) == ToLower(name)

\* The cutset " \t" of the TrimLeft/TrimRight calls and of the comment regexp.
IsBlank(c) == c = " " \/ c = "\t"

RECURSIVE TrimLeft(_)
\* strings.TrimLeft(s, " \t")
TrimLeft(s) ==
    IF s # "" /\ IsBlank(Char(s, 1)) THEN TrimLeft(Tail(s)) ELSE s

RECURSIVE TrimRight(_)
\* strings.TrimRight(s, " \t")
TrimRight(s) ==
    IF s # "" /\ IsBlank(Char(s, Len(s)))
    THEN TrimRight(SubSeq(s, 1, Len(s) - 1))
    ELSE s

\* strings.HasPrefix
HasPrefix(s, p) == Len(s) >= Len(p) /\ SubSeq(s, 1, Len(p)) = p

\* strings.HasSuffix
HasSuffix(s, p) == Len(s) >= Len(p) /\ SubSeq(s, Len(s) - Len(p) + 1, Len(s)) = p

\* strings.TrimPrefix
TrimPrefix(s, p) == IF HasPrefix(s, p) THEN SubSeq(s, Len(p) + 1, Len(s)) ELSE s

\* strings.TrimSuffix
TrimSuffix(s, p) == IF HasSuffix(s, p) THEN SubSeq(s, 1, Len(s) - Len(p)) ELSE s

\* The position of the first c in s, 0 when there is none.
IndexOf(s, c) ==
    IF \E i \in 1..Len(s) : Char(s, i) = c
    THEN CHOOSE i \in 1..Len(s) :
             Char(s, i) = c /\ \A j \in 1..(i - 1) : Char(s, j) # c
    ELSE 0

\* strings.SplitN(s, sep, 2) for a one-character sep.
SplitN2(s, sep) ==
    LET i == IndexOf(s, sep)
    IN  IF i = 0 THEN <<s>>
        ELSE <<SubSeq(s, 1, i - 1), SubSeq(s, i + 1, Len(s))>>

RECURSIVE Split(_, _)
\* strings.Split(s, sep) for a one-character sep.
Split(s, sep) ==
    LET i == IndexOf(s, sep)
    IN  IF i = 0 THEN <<s>>
        ELSE <<SubSeq(s, 1, i - 1)>> \o Split(SubSeq(s, i + 1, Len(s)), sep)

\* Whether the regexp "[ \t]+#.*$" matches s starting at position i: a run
\* of blanks from i, then '#' (".*$" takes the rest of the line).
CommentAt(s, i) ==
    \E j \in (i + 1)..Len(s) :
        /\ Char(s, j) = "#"
        /\ \A k \in i..(j - 1) : IsBlank(Char(s, k))

\* A comment rule that cuts the line at its first '#'.
ShaveComment_AnyHash(s) ==
    LET i == IndexOf(s, "#")
    IN  IF i = 0 THEN s ELSE SubSeq(s, 1, i - 1)

\* regexp.MustCompile("[ \t]+#.*$").Split(line, 2)[0]: the text before the
\* leftmost match, the whole line when nothing matches.
ShaveComment(s) ==
    IF \E i \in 1..Len(s) : CommentAt(s, i)
    THEN LET i == CHOOSE i \in 1..Len(s) :
                      CommentAt(s, i) /\ \A j \in 1..(i - 1) : ~CommentAt(s, j)
         IN  SubSeq(s, 1, i - 1)
    ELSE s

(***************************************************************************)
(* Numbers: strconv.                                                       *)
(***************************************************************************)
DigitChars == "0123456789abcdef"

\* The value of digit c in the given base, -1 when c is no digit of it.
DigitVal(c, base) ==
    LET lc == LowerChar(c)
    IN  IF \E i \in 1..base : Char(DigitChars, i) = lc
        THEN (CHOOSE i \in 1..base : Char(DigitChars, i) = lc) - 1
        ELSE -1

AllDigits(s, base) ==
    s # "" /\ \A i \in 1..Len(s) : DigitVal(Char(s, i), base) >= 0

RECURSIVE DigitsValue(_, _)
DigitsValue(s, base) ==
    IF s = "" THEN 0
    ELSE DigitsValue(SubSeq(s, 1, Len(s) - 1), base) * base
             + DigitVal(Char(s, Len(s)), base)

\* strconv.ParseUint(s, 10, 64): [v, ok]; digits only, no sign.  (The texts
\* of the model have a few digits, far from the 64-bit range error.)
ParseUint10(s) ==
    IF AllDigits(s, 10)
    THEN [v |-> DigitsValue(s, 10), ok |-> TRUE]
    ELSE [v |-> 0, ok |-> FALSE]

\* strconv.Atoi(s): [v, ok]; an optional sign, then decimal digits.  On a
\* syntax error v is 0.
Atoi(s) ==
    LET neg  == HasPrefix(s, "-")
        body == IF HasPrefix(s, "-") \/ HasPrefix(s, "+") THEN Tail(s) ELSE s
        mag  == DigitsValue(body, 10)
    IN  IF ~AllDigits(body, 10) THEN [v |-> 0, ok |-> FALSE]
        ELSE [v |-> IF neg THEN -mag ELSE mag, ok |-> TRUE]

(***************************************************************************)
(* The option registry.                                                    *)
(***************************************************************************)
\* type Option struct: the four value pointers, one of them non-nil.
Option(type, shortopt, file, desc, sv, bv, iv, uv, source) ==
    [Type |-> type, ShortOpt |-> shortopt, ConfigFile |-> file, Desc |-> desc,
     StringValue |-> sv, BoolValue |-> bv, IntValue |-> iv, UintValue |-> uv,
     Source |-> source]

\* Config[lc] = &Option{...}: the map with one entry set.
Put(cfg, lc, opt) ==
    [n \in DOMAIN cfg \cup {lc} |-> IF n = lc THEN opt ELSE cfg[n]]

NewStringOpt(shortopt, file, value, desc) ==
    Option("string", shortopt, file, desc, <<value>>, <<>>, <<>>, <<>>, "Default")

NewBoolOpt(shortopt, file, value, desc) ==
    Option("bool", shortopt, file, desc, <<>>, <<value>>, <<>>, <<>>, "Default")

NewIntOpt(shortopt, file, value, desc) ==
    Option("int", shortopt, file, desc, <<>>, <<>>, <<value>>, <<>>, "Default")

NewUintOpt(shortopt, file, value, desc) ==
    Option("uint", shortopt, file, desc, <<>>, <<>>, <<>>, <<value>>, "Default")

\* The registry after SetStringOpt(name, shortopt, file, value, desc).
DeclString(cfg, name, shortopt, file, value, desc) ==
    Put(cfg, ToLower(name), NewStringOpt(shortopt, file, value, desc))

DeclBool(cfg, name, shortopt, file, value, desc) ==
    Put(cfg, ToLower(name), NewBoolOpt(shortopt, file, value, desc))

DeclInt(cfg, name, shortopt, file, value, desc) ==
    Put(cfg, ToLower(name), NewIntOpt(shortopt, file, value, desc))

DeclUint(cfg, name, shortopt, file, value, desc) ==
    Put(cfg, ToLower(name), NewUintOpt(shortopt, file, value, desc))

\* const ConfErrNoSuchOption, and the "bad call" error of a typed getter.
ConfErrNoSuchOption == "No such option"
ErrBadCall == "bad call"

\* A getter that looks the name up as written.
LookupKey_AsWritten(name) == name

\* The key a getter looks up: lc := strings.ToLower(name).
LookupKey(name) == ToLower(name)

\* GetStringOpt(name): (value, err); the zero value with an error.
GetStringOptIn(cfg, name) ==
    LET lc == LookupKey(name)
    IN  IF lc \notin DOMAIN cfg THEN [value |-> "", err |-> ConfErrNoSuchOption]
        ELSE IF cfg[lc].Type # "string" THEN [value |-> "", err |-> ErrBadCall]
        ELSE [value |-> cfg[lc].StringValue[1], err |-> ""]

GetBoolOptIn(cfg, name) ==
    LET lc == LookupKey(name)
    IN  IF lc \notin DOMAIN cfg THEN [value |-> FALSE, err |-> ConfErrNoSuchOption]
        ELSE IF cfg[lc].Type # "bool" THEN [value |-> FALSE, err |-> ErrBadCall]
        ELSE [value |-> cfg[lc].BoolValue[1], err |-> ""]

GetIntOptIn(cfg, name) ==
    LET lc == LookupKey(name)
    IN  IF lc \notin DOMAIN cfg THEN [value |-> 0, err |-> ConfErrNoSuchOption]
        ELSE IF cfg[lc].Type # "int" THEN [value |-> 0, err |-> ErrBadCall]
        ELSE [value |-> cfg[lc].IntValue[1], err |-> ""]

GetUintOptIn(cfg, name) ==
    LET lc == LookupKey(name)
    IN  IF lc \notin DOMAIN cfg THEN [value |-> 0, err |-> ConfErrNoSuchOption]
        ELSE IF cfg[lc].Type # "uint" THEN [value |-> 0, err |-> ErrBadCall]
        ELSE [value |-> cfg[lc].UintValue[1], err |-> ""]

GetStringOpt(name) == GetStringOptIn(Config, name)
GetBoolOpt(name) == GetBoolOptIn(Config, name)
GetIntOpt(name) == GetIntOptIn(Config, name)
GetUintOpt(name) == GetUintOptIn(Config, name)

\* Lines 30-36 of PackageInit: the first seven standard options, declared
\* over registry cfg.
PackageInitFirst(cfg) ==
    LET c1 == DeclBool(cfg, "Help", "h", FALSE, FALSE, "Help! Show usage")
        c2 == DeclBool(c1, "Verbose", "v", TRUE, FALSE, "Verbose mode")
        c3 == DeclBool(c2, "Quiet", "q", TRUE, FALSE, "Quiet mode")
        c4 == DeclBool(c3, "Quieter", "", TRUE, FALSE, "Quieter mode")
        c5 == DeclBool(c4, "ShowConfig", "", FALSE, FALSE,
                       "Show configuration settings and value, and exit.")
        c6 == DeclBool(c5, "Page", "", TRUE, TRUE, "Enable paging when showing usage (-h)")
        c7 == DeclString(c6, "Pager", "", TRUE, "",
                         "Specify a pager command for paging usage information")
    IN  c7

\* The declarations of PackageInit over registry cfg: the eight standard
\* options, each replacing an entry of the same name.
PackageInitIn(cfg) ==
    DeclBool(PackageInitFirst(cfg), "Version", "", FALSE, FALSE, "Show version info.")

\* The registry after PackageInit in a program that declared nothing yet.
PackageInitConfig == PackageInitIn(<<>>)

\* Lines 23-28 of PackageInit: the package names it assigns.
PackageNames(pkg_name, pkg_version) ==
    [PkgName    |-> pkg_name,
     PkgVersion |-> pkg_version,
     Package    |-> pkg_name \o "-" \o pkg_version,
     PackageDir |-> "/usr/site/" \o pkg_name \o "-" \o pkg_version,
     PackageEtc |-> "/usr/site/" \o pkg_name \o "-" \o pkg_version \o "/etc",
     LocalEtc   |-> "/etc/opt/" \o pkg_name]

\* Lines 13-18: the package names of a program that has not called
\* PackageInit.
NoPackageNames ==
    [PkgName |-> "", PkgVersion |-> "", Package |-> "", PackageDir |-> "",
     PackageEtc |-> "", LocalEtc |-> ""]

RECURSIVE TrimSlashes(_)
\* A path without its trailing slashes.
TrimSlashes(s) ==
    IF s # "" /\ Char(s, Len(s)) = "/" THEN TrimSlashes(SubSeq(s, 1, Len(s) - 1)) ELSE s

RECURSIVE AfterLastSlash(_, _)
\* What follows the last slash among the first i characters of s.
AfterLastSlash(s, i) ==
    IF i = 0 THEN s
    ELSE IF Char(s, i) = "/" THEN SubSeq(s, i + 1, Len(s))
    ELSE AfterLastSlash(s, i - 1)

\* path.Base(s), which PackageInit takes ProgramName from.
PathBase(s) ==
    IF s = "" THEN "."
    ELSE IF TrimSlashes(s) = "" THEN "/"
    ELSE AfterLastSlash(TrimSlashes(s), Len(TrimSlashes(s)))

(***************************************************************************)
(* The command-path resolver.                                              *)
(***************************************************************************)
RECURSIVE CumulativePaths(_, _, _)
\* The loop of GetCommandPaths: command += sep + c; sep = ":".
CumulativePaths(tokens, command, sep) ==
    IF tokens = <<>> THEN <<>>
    ELSE LET next == command \o sep \o Head(tokens)
         IN  <<next>> \o CumulativePaths(Tail(tokens), next, ":")

\* A resolver that starts the cumulative path with the program name.
GetCommandPaths_WithProgram(prog, args0) ==
    <<prog>> \o CumulativePaths(Tail(Split(args0, " ")), prog, ":")

\* GetCommandPaths() for the given ProgramName and os.Args[0].
GetCommandPaths(prog, args0) ==
    <<prog>> \o CumulativePaths(Tail(Split(args0, " ")), "", "")

\* InList(list, check_item)
InList(list, check_item) == \E i \in 1..Len(list) : list[i] = check_item

(***************************************************************************)
(* CheckFlagValue.                                                         *)
(***************************************************************************)
\* Whether character c is one of the characters of cutset.
InCutset(c, cutset) == \E i \in 1..Len(cutset) : Char(cutset, i) = c

RECURSIVE TrimLeftCutset(_, _)
\* strings.TrimLeft(s, cutset): s without its leading characters that are
\* in cutset.
TrimLeftCutset(s, cutset) ==
    IF s # "" /\ InCutset(Char(s, 1), cutset) THEN TrimLeftCutset(Tail(s), cutset)
    ELSE s

\* strings.EqualFold on the letters A-Z and a-z.
EqualFold(s, t) == ToLower(s) = ToLower(t)

\* CheckFlagValue(user_value, resource_value, not_specified)
CheckFlagValue(user_value, resource_value, not_specified) ==
    IF user_value = "" THEN not_specified
    ELSE IF HasPrefix(user_value, "not:")
    THEN ~EqualFold(TrimLeftCutset(user_value, "not:"), resource_value)
    ELSE EqualFold(user_value, resource_value)

(***************************************************************************)
(* The config-file reader.                                                 *)
(***************************************************************************)
ErrEmptySection == "empty section name"
ErrBadLine == "Bad line"
ErrUnknownOption == "Unknown option"
ErrIllegalOption == "Illegal option"
ErrUnknownValue == "Unknown value"
ErrOpen == "Error opening config file"
ErrCommandPaths == "bug: failure getting command paths"

\* A pattern that leaves "yes" out.
MatchTrue_NoYes(s) == s \in {"t", "true", "1"}

\* regexp.MatchString("^(t|true|yes|1)$", s) and "^(f|false|no|0)$".
MatchTrue(s) == s \in {"t", "true", "yes", "1"}
MatchFalse(s) == s \in {"f", "false", "no", "0"}

\* A provenance that leaves the path out.
FileSource_NoPath(config_file) == "file:"

\* option.Source = "file:" + config_file
FileSource(config_file) == "file:" \o config_file

\* An assignment that stores the text as a string whatever the kind.
AssignFromFile_AsString(option, option_value, config_file) ==
    [opt |-> [option EXCEPT !.Source = FileSource(config_file),
                            !.StringValue = <<option_value>>],
     err |-> ""]

\* Lines 399-430 of ReadConfigFile: the assignment to a known, file-allowed
\* option: [opt, err].
AssignFromFile(option, option_value, config_file) ==
    LET o == [option EXCEPT !.Source = FileSource(config_file)]
    IN  CASE option.Type = "string" ->
                [opt |-> [o EXCEPT !.StringValue = <<option_value>>], err |-> ""]
          [] option.Type = "int" ->
                LET r == Atoi(option_value)
                IN  [opt |-> [o EXCEPT !.IntValue = <<r.v>>],
                     err |-> IF r.ok THEN "" ELSE ErrUnknownValue]
          [] option.Type = "uint" ->
                LET r == ParseUint10(option_value)
                IN  IF r.ok THEN [opt |-> [o EXCEPT !.UintValue = <<r.v>>], err |-> ""]
                    ELSE [opt |-> o, err |-> ErrUnknownValue]
          [] option.Type = "bool" ->
                LET v == ToLower(option_value)
                IN  IF MatchTrue(v)
                    THEN [opt |-> [o EXCEPT !.BoolValue = <<TRUE>>], err |-> ""]
                    ELSE IF MatchFalse(v)
                    THEN [opt |-> [o EXCEPT !.BoolValue = <<FALSE>>], err |-> ""]
                    ELSE [opt |-> o, err |-> ErrUnknownValue]
          [] OTHER -> [opt |-> o, err |-> ""]

\* A check that lets every option through.
FileAllowed_Always(option) == TRUE

\* The check of line 396: option.ConfigFile.
FileAllowed(option) == option.ConfigFile

\* A gate that ignores no section.
SectionIgnored_Never(paths, section) == FALSE

\* The section gate of lines 367-371: ignoreSection = !inList.
SectionIgnored(paths, section) == ~InList(paths, section)

\* The state of a read: the registry, ignoreSection, the error the read
\* returns ("" while it goes on) and line_no.
ReadState(cfg, ignore, error, n) ==
    [cfg |-> cfg, ignore |-> ignore, err |-> error, line_no |-> n]

\* One pass of the scanner loop (lines 343-431) over one line of the file;
\* err # "" when the read returns there.
ReadLine(st, text, config_file, paths) ==
    LET line0 == TrimLeft(text)
        line  == ShaveComment(line0)
        slice == SplitN2(line, "=")
        same  == [st EXCEPT !.line_no = st.line_no + 1]
    IN  IF HasPrefix(line0, "#") \/ line0 = "" THEN same
        ELSE IF HasPrefix(line, "[") THEN
            LET section == TrimSuffix(TrimPrefix(line, "["), "]")
            IN  IF section = "" THEN [same EXCEPT !.err = ErrEmptySection]
                ELSE [same EXCEPT !.ignore = SectionIgnored(paths, section)]
        ELSE IF st.ignore THEN same
        ELSE IF Len(slice) # 2 THEN [same EXCEPT !.err = ErrBadLine]
        ELSE LET option_name  == ToLower(TrimRight(slice[1]))
                 option_value == TrimLeft(slice[2])
             IN  IF option_name \notin DOMAIN st.cfg
                 THEN [same EXCEPT !.err = ErrUnknownOption]
                 ELSE IF ~FileAllowed(st.cfg[option_name])
                 THEN [same EXCEPT !.err = ErrIllegalOption]
                 ELSE Once(LAMBDA a : [same EXCEPT !.cfg[option_name] = a.opt,
                                                   !.err = a.err],
                           AssignFromFile(st.cfg[option_name], option_value, config_file))

RECURSIVE ScanLines(_, _, _, _)
\* The scanner loop from state st on, up to the error or the end of the file.
ScanLines(st, lines, config_file, paths) ==
    IF st.err # "" \/ st.line_no >= Len(lines) THEN st
    ELSE Once(LAMBDA next : ScanLines(next, lines, config_file, paths),
              ReadLine(st, lines[st.line_no + 1], config_file, paths))

\* ReadConfigFile(config_file) on registry cfg, with the file system files
\* and the command paths given: [cfg, err, line_no].
ReadConfigFileIn(cfg, config_file, files, paths) ==
    IF Len(paths) = 0 THEN ReadState(cfg, FALSE, ErrCommandPaths, 0)
    ELSE IF config_file \notin DOMAIN files THEN ReadState(cfg, FALSE, ErrOpen, 0)
    ELSE ScanLines(ReadState(cfg, FALSE, "", 0), files[config_file], config_file, paths)

(***************************************************************************)
(* Inputs.                                                                 *)
(***************************************************************************)
\* Every sequence over S of length at most n.
SeqsUpTo(S, n) == UNION {[1..k -> S] : k \in 0..n}

\* The options a program declares after PackageInit, one of each kind.
ProgramConfig ==
    LET c1 == DeclInt(PackageInitConfig, "Retries", "r", TRUE, 3, "retry count")
        c2 == DeclUint(c1, "Limit", "", TRUE, 10, "size limit")
        c3 == DeclString(c2, "Name", "n", TRUE, "", "a name")
        c4 == DeclBool(c3, "Debug", "d", FALSE, FALSE, "Debug mode")
    IN  c4

\* The path of the i-th config file handed to ReadConfigFile.
ConfPath(i) == "/etc/opt/pkg/f" \o Char(DigitChars, i + 1) \o ".conf"

\* A path where no file is.
MissingPath == "/etc/opt/pkg/none.conf"

(***************************************************************************)
(* Operations.                                                             *)
(***************************************************************************)
\* What a step leaves alone.
EnvUnchanged ==
    UNCHANGED <<PkgName, PkgVersion, Package, PackageDir, PackageEtc, LocalEtc,
                ProgramName, OsArgs0, OsArgs, home, fs, statErr,
                cmdItems, subCommands, host, flagCheck>>
GlobalsUnchanged == UNCHANGED <<Verbose, Quiet, Quieter, Debug, shown, pod>>
PipeUnchanged == UNCHANGED <<todo, retArgs, exitCode, afterFiles>> /\ GlobalsUnchanged
DeclUnchanged == UNCHANGED <<lastDecl, prevType>>
ReadUnchanged == UNCHANGED <<readLog, beforeRead, line_no, commandPaths>>

\* The Type of the entry under key lc, "" when there is no entry.
TypeOf(cfg, lc) == IF lc \in DOMAIN cfg THEN cfg[lc].Type ELSE ""

\* A declaration: the registry changes, and the history records it.
Declare(name, kind, shortopt, file, value, desc, cfg) ==
    /\ pc = "declare"
    /\ Config' = cfg
    /\ lastDecl' = <<[name |-> name, kind |-> kind, shortopt |-> shortopt,
                      file |-> file, value |-> value, desc |-> desc]>>
    /\ prevType' = TypeOf(Config, ToLower(name))
    /\ UNCHANGED <<pc, err>>
    /\ EnvUnchanged /\ PipeUnchanged /\ ReadUnchanged

SetStringOpt(name, shortopt, file, value, desc) ==
    Declare(name, "string", shortopt, file, <<value>>, desc,
            DeclString(Config, name, shortopt, file, value, desc))

SetBoolOpt(name, shortopt, file, value, desc) ==
    Declare(name, "bool", shortopt, file, <<value>>, desc,
            DeclBool(Config, name, shortopt, file, value, desc))

SetIntOpt(name, shortopt, file, value, desc) ==
    Declare(name, "int", shortopt, file, <<value>>, desc,
            DeclInt(Config, name, shortopt, file, value, desc))

SetUintOpt(name, shortopt, file, value, desc) ==
    Declare(name, "uint", shortopt, file, <<value>>, desc,
            DeclUint(Config, name, shortopt, file, value, desc))

\* A call of ReadConfigFile(config_file) by the program.
ReadConfigFile(config_file) ==
    \E paths \in {GetCommandPaths(ProgramName, OsArgs0)} :
    \E r \in {ReadConfigFileIn(Config, config_file, fs, paths)} :
        /\ pc = "ready"
        /\ Len(readLog) < MaxReads
        /\ Config' = r.cfg
        /\ err' = r.err
        /\ line_no' = r.line_no
        /\ commandPaths' = paths
        /\ beforeRead' = Config
        /\ readLog' = Append(readLog, [path |-> config_file, err |-> r.err])
        /\ UNCHANGED pc
        /\ EnvUnchanged /\ PipeUnchanged /\ DeclUnchanged

(***************************************************************************)
(* The command-line overlay: pflag's CommandLine flag set, as               *)
(* ProcessCommandLine uses it.                                             *)
(***************************************************************************)
\* strconv.ParseBool, which pflag's bool flags parse their value with.
ParseBool(str) ==
    IF str \in {"1", "t", "T", "TRUE", "true", "True"} THEN [v |-> TRUE, ok |-> TRUE]
    ELSE IF str \in {"0", "f", "F", "FALSE", "false", "False"} THEN [v |-> FALSE, ok |-> TRUE]
    ELSE [v |-> FALSE, ok |-> FALSE]

\* The base strconv reads an unsigned literal in when asked for base 0, and
\* what follows the prefix: 0b, 0o and 0x need a third character, any other
\* leading 0 is the octal prefix.
Base0(body) ==
    LET p == ToLower(SubSeq(body, 1, 2))
    IN  IF Len(body) > 2 /\ p = "0x" THEN [base |-> 16, digits |-> SubSeq(body, 3, Len(body))]
        ELSE IF Len(body) > 2 /\ p = "0b" THEN [base |-> 2, digits |-> SubSeq(body, 3, Len(body))]
        ELSE IF Len(body) > 2 /\ p = "0o" THEN [base |-> 8, digits |-> SubSeq(body, 3, Len(body))]
        ELSE IF Len(body) > 0 /\ Char(body, 1) = "0" THEN [base |-> 8, digits |-> Tail(body)]
        ELSE [base |-> 10, digits |-> body]

RECURSIVE StripUnderscores(_)
\* The digits ParseUint accumulates in base 0: the underscores are passed
\* over.
StripUnderscores(s) ==
    IF s = "" THEN ""
    ELSE IF Char(s, 1) = "_" THEN StripUnderscores(Tail(s))
    ELSE Char(s, 1) \o StripUnderscores(Tail(s))

RECURSIVE UnderscoreScan(_, _, _)
\* The loop of strconv's underscoreOK over s; last is what came before:
\* "0" a digit (or the base prefix), "_" an underscore, "!" anything else,
\* "^" nothing yet.
UnderscoreScan(s, last, hex) ==
    IF s = "" THEN last # "_"
    ELSE LET c == Char(s, 1)
         IN  IF DigitVal(c, IF hex THEN 16 ELSE 10) >= 0
             THEN UnderscoreScan(Tail(s), "0", hex)
             ELSE IF c = "_"
             THEN last = "0" /\ UnderscoreScan(Tail(s), "_", hex)
             ELSE last # "_" /\ UnderscoreScan(Tail(s), "!", hex)

\* strconv's underscoreOK(s): underscores only between digits, or between
\* the base prefix and a digit.
UnderscoreOK(s) ==
    LET t == IF s # "" /\ Char(s, 1) \in {"-", "+"} THEN Tail(s) ELSE s
        p == IF Len(t) >= 2 THEN ToLower(SubSeq(t, 1, 2)) ELSE ""
    IN  IF p \in {"0b", "0o", "0x"}
        THEN UnderscoreScan(SubSeq(t, 3, Len(t)), "0", p = "0x")
        ELSE UnderscoreScan(t, "^", FALSE)

\* strconv.ParseUint(s, 0, 64), which pflag's uint flags parse with: [v, ok],
\* v being 0 on a syntax error.
ParseUint0(str) ==
    LET b == Base0(str)
        digits == StripUnderscores(b.digits)
    IN  IF /\ str # ""
           /\ \A i \in 1..Len(b.digits) :
                  Char(b.digits, i) = "_" \/ DigitVal(Char(b.digits, i), b.base) >= 0
           /\ (digits # b.digits => UnderscoreOK(str))
        THEN [v |-> DigitsValue(digits, b.base), ok |-> TRUE]
        ELSE [v |-> 0, ok |-> FALSE]

\* strconv.ParseInt(s, 0, 64), which pflag's int flags parse with.
ParseInt0(str) ==
    LET neg  == HasPrefix(str, "-")
        body == IF HasPrefix(str, "-") \/ HasPrefix(str, "+") THEN Tail(str) ELSE str
        r    == ParseUint0(body)
    IN  IF r.ok THEN [v |-> IF neg THEN -r.v ELSE r.v, ok |-> TRUE]
        ELSE [v |-> 0, ok |-> FALSE]

\* A Set that stores nothing.
SetFlag_Ignored(option, value) == [opt |-> option, ok |-> TRUE]

\* flag.Value.Set(value) through the pointer the flag was bound to (lines
\* 450-479): [opt, ok].  pflag's Set stores what strconv returned before it
\* returns the error: a value that does not parse leaves false or 0 in the
\* cell.
SetFlag(option, value) ==
    CASE option.Type = "string" ->
            [opt |-> [option EXCEPT !.StringValue = <<value>>], ok |-> TRUE]
      [] option.Type = "bool" ->
            LET r == ParseBool(value)
            IN  [opt |-> [option EXCEPT !.BoolValue = <<r.v>>], ok |-> r.ok]
      [] option.Type = "int" ->
            LET r == ParseInt0(value)
            IN  [opt |-> [option EXCEPT !.IntValue = <<r.v>>], ok |-> r.ok]
      [] option.Type = "uint" ->
            LET r == ParseUint0(value)
            IN  [opt |-> [option EXCEPT !.UintValue = <<r.v>>], ok |-> r.ok]
      [] OTHER -> [opt |-> option, ok |-> TRUE]

\* A bool flag takes no argument: pflag gives it NoOptDefVal "true".
NoOptDefVal(option) == IF option.Type = "bool" THEN "true" ELSE ""

\* The parse state: the registry the flags are bound to, the tokens left,
\* the positional arguments so far, the flags set, whether it failed, and
\* whether the failure is pflag's ErrHelp.
ParseState(cfg, args, positional, changed, failed) ==
    [cfg |-> cfg, args |-> args, positional |-> positional,
     changed |-> changed, failed |-> failed, help |-> FALSE]

\* Setting flag name to value, with the tokens rest left to parse.  The
\* flag counts as changed only when Set succeeded; what a failed Set wrote
\* stays in the registry.
ApplyFlag(st, name, value, rest) ==
    Once(LAMBDA r : ParseState([st.cfg EXCEPT ![name] = r.opt], rest, st.positional,
                               IF r.ok THEN st.changed \cup {name} ELSE st.changed,
                               ~r.ok),
         SetFlag(st.cfg[name], value))

Failed(st) == [st EXCEPT !.failed = TRUE]

\* --help or -h with no such flag declared: pflag prints its usage and
\* fails with ErrHelp.
HelpAsked(st) == [st EXCEPT !.failed = TRUE, !.help = TRUE]

\* pflag's parseLongArg for token s ("--name", "--name=value"), the tokens
\* after it being st.args.
ParseLongArg(st, s) ==
    LET body  == SubSeq(s, 3, Len(s))
        split == SplitN2(body, "=")
        name  == flagCaseInsensitive(split[1])
    IN  IF Char(body, 1) = "-" \/ Char(body, 1) = "=" THEN Failed(st)
        ELSE IF name \notin DOMAIN st.cfg
        THEN (IF split[1] = "help" THEN HelpAsked(st) ELSE Failed(st))
        ELSE IF Len(split) = 2 THEN ApplyFlag(st, name, split[2], st.args)
        ELSE IF NoOptDefVal(st.cfg[name]) # ""
        THEN ApplyFlag(st, name, NoOptDefVal(st.cfg[name]), st.args)
        ELSE IF st.args # <<>> THEN ApplyFlag(st, name, Head(st.args), Tail(st.args))
        ELSE Failed(st)

\* The option whose ShortOpt is c, as a set (empty when there is none).
ByShorthand(cfg, c) == {n \in DOMAIN cfg : cfg[n].ShortOpt = c}

RECURSIVE ParseShortArg(_, _)
\* pflag's parseShortArg for the shorthands of one token ("-r5", "-vq");
\* what starts with "test." is passed over.  (Binding has made sure that no
\* two options share a shorthand.)
ParseShortArg(st, shorthands) ==
    IF shorthands = "" \/ st.failed THEN st
    ELSE IF HasPrefix(shorthands, "test.") THEN st
    ELSE LET c     == Char(shorthands, 1)
             found == ByShorthand(st.cfg, c)
             name  == CHOOSE n \in found : TRUE
         IN  IF found = {} THEN (IF c = "h" THEN HelpAsked(st) ELSE Failed(st))
             ELSE IF Len(shorthands) > 2 /\ Char(shorthands, 2) = "="
             THEN ApplyFlag(st, name, SubSeq(shorthands, 3, Len(shorthands)), st.args)
             ELSE IF NoOptDefVal(st.cfg[name]) # ""
             THEN Once(LAMBDA next : ParseShortArg(next, Tail(shorthands)),
                       ApplyFlag(st, name, NoOptDefVal(st.cfg[name]), st.args))
             ELSE IF Len(shorthands) > 1
             THEN ApplyFlag(st, name, Tail(shorthands), st.args)
             ELSE IF st.args # <<>>
             THEN ApplyFlag(st, name, Head(st.args), Tail(st.args))
             ELSE Failed(st)

RECURSIVE ParseArgs(_)
\* pflag's parseArgs: flags and positional arguments interspersed, "--"
\* ending the flags.
ParseArgs(st) ==
    IF st.args = <<>> \/ st.failed THEN st
    ELSE LET s    == Head(st.args)
             rest == [st EXCEPT !.args = Tail(st.args)]
         IN  IF Len(s) < 2 \/ Char(s, 1) # "-"
             THEN Once(ParseArgs, [rest EXCEPT !.positional = Append(st.positional, s)])
             ELSE IF Char(s, 2) = "-"
             THEN IF Len(s) = 2
                  THEN [rest EXCEPT !.positional = st.positional \o rest.args,
                                    !.args = <<>>]
                  ELSE Once(ParseArgs, ParseLongArg(rest, s))
             ELSE Once(ParseArgs, ParseShortArg(rest, Tail(s)))

\* A test that takes a flag for set when its value changed.
FlagChanged_ByValue(st, before, name) == st.cfg[name] # before[name]

\* pflag.CommandLine.Changed(name)
FlagChanged(st, before, name) == name \in st.changed

\* Lines 488-493: the options set on the command line get Source
\* "CommandLine".
MarkCommandLine(st, before) ==
    [n \in DOMAIN st.cfg |->
        IF FlagChanged(st, before, n)
        THEN [st.cfg[n] EXCEPT !.Source = "CommandLine"]
        ELSE st.cfg[n]]

\* The exit status of pflag's ExitOnError.
ExitOnErrorStatus == 2

\* The exit status of a Go program that panics.
PanicStatus == 2

\* The exit status after ErrHelp: 0 in the pflag releases that tell it from
\* the other errors, that of ExitOnError in the earlier ones.
ErrHelpStatus == {0, ExitOnErrorStatus}

\* Lines 445-480: binding the options to flags panics when a shorthand has
\* more than one character or is that of a flag bound already.
BindPanics(cfg) ==
    \E n \in DOMAIN cfg :
        \/ Len(cfg[n].ShortOpt) > 1
        \/ /\ cfg[n].ShortOpt # ""
           /\ \E m \in DOMAIN cfg \ {n} : cfg[m].ShortOpt = cfg[n].ShortOpt

\* ProcessCommandLine() on registry cfg with tokens args: [cfg, args,
\* exited, codes].  pflag.CommandLine handles a parse error by ExitOnError:
\* it prints the error and ends the process; codes are the exit statuses
\* the process may end with.
ProcessCommandLineIn(cfg, args) ==
    IF BindPanics(cfg)
    THEN [cfg |-> cfg, args |-> <<>>, exited |-> TRUE, codes |-> {PanicStatus}]
    ELSE Once(LAMBDA st :
                  IF st.failed
                  THEN [cfg |-> st.cfg, args |-> <<>>, exited |-> TRUE,
                        codes |-> IF st.help THEN ErrHelpStatus ELSE {ExitOnErrorStatus}]
                  ELSE [cfg |-> MarkCommandLine(st, cfg), args |-> st.positional,
                        exited |-> FALSE, codes |-> {}],
              ParseArgs(ParseState(cfg, args, <<>>, {}, FALSE)))

(***************************************************************************)
(* The orchestrator.                                                       *)
(***************************************************************************)
\* The package names as they stand.
Names ==
    [PkgName |-> PkgName, PkgVersion |-> PkgVersion, Package |-> Package,
     PackageDir |-> PackageDir, PackageEtc |-> PackageEtc, LocalEtc |-> LocalEtc]

\* Lines 56-61: ConfigDirs, lowest priority first, for package names n.
ConfigDirsOf(n, homeDir) ==
    <<n.PackageEtc, n.LocalEtc, n.LocalEtc \o "-" \o n.PkgVersion>>
    \o (IF homeDir = <<>> THEN <<>>
        ELSE <<homeDir[1] \o "/." \o n.PkgName, homeDir[1] \o "/." \o n.Package>>)

\* Lines 63-71: configFiles.
ConfigFilesOf(pkg, prog, paths) ==
    (IF pkg # prog THEN <<pkg \o ".conf">> ELSE <<>>)
    \o [i \in 1..Len(paths) |-> paths[i] \o ".conf"]

RECURSIVE FlattenFrom(_, _)
FlattenFrom(ss, i) == IF i > Len(ss) THEN <<>> ELSE ss[i] \o FlattenFrom(ss, i + 1)

\* The sequences of ss, one after the other.
Flatten(ss) == FlattenFrom(ss, 1)

\* A visiting order with the directories in the outer loop.
VisitOrder_DirsOuter(files, dirs) ==
    Flatten([d \in 1..Len(dirs) |->
                [f \in 1..Len(files) |-> dirs[d] \o "/" \o files[f]]])

\* Lines 73-75: the config_file of every pass of the two loops, in order:
\* the filenames in the outer loop, the directories in the inner one.
VisitOrder(files, dirs) ==
    Flatten([f \in 1..Len(files) |->
                [d \in 1..Len(dirs) |-> dirs[d] \o "/" \o files[f]]])

\* The paths ConfigureOptions stats, in order.
Candidates(n, prog, args0, homeDir) ==
    VisitOrder(ConfigFilesOf(n.PkgName, prog, GetCommandPaths(prog, args0)),
               ConfigDirsOf(n, homeDir))

\* os.Stat(path): "ok", "absent" (os.IsNotExist) or "error".
Stat(path) ==
    IF path \in statErr THEN "error"
    ELSE IF path \in DOMAIN fs THEN "ok" ELSE "absent"

RECURSIVE SkipAbsent(_)
\* The candidates from the first one on that is not absent.
SkipAbsent(paths) ==
    IF paths # <<>> /\ Stat(Head(paths)) = "absent" THEN SkipAbsent(Tail(paths))
    ELSE paths

ErrStat == "Error stat'ing config file"

\* ConfigureOptions, lines 52-71: the directories, the filenames and the
\* command paths.
ConfigureOptions_Begin ==
    LET paths == GetCommandPaths(ProgramName, OsArgs0)
    IN  /\ pc = "ready"
        /\ commandPaths' = paths
        /\ IF Len(paths) = 0
           THEN pc' = "returned" /\ err' = ErrCommandPaths /\ todo' = <<>>
           ELSE /\ pc' = "files"
                /\ err' = ""
                /\ todo' = VisitOrder(ConfigFilesOf(PkgName, ProgramName, paths),
                                      ConfigDirsOf(Names, home))
        /\ UNCHANGED <<Config, line_no, retArgs, exitCode, afterFiles, readLog, beforeRead>>
        /\ EnvUnchanged /\ DeclUnchanged /\ GlobalsUnchanged

\* Lines 75-82 for the first candidate of rest, which is not absent.
ReadCandidate(rest) ==
    \E file \in {Head(rest)} :
    \E r \in {ReadConfigFileIn(Config, file, fs, GetCommandPaths(ProgramName, OsArgs0))} :
        /\ IF Stat(file) = "error"
           THEN /\ pc' = "returned" /\ err' = ErrStat
                /\ UNCHANGED <<Config, line_no, readLog, beforeRead>>
           ELSE /\ Config' = r.cfg
                /\ line_no' = r.line_no
                /\ beforeRead' = Config
                /\ readLog' = Append(readLog, [path |-> file, err |-> r.err])
                /\ err' = r.err
                /\ pc' = IF r.err # "" THEN "returned" ELSE "files"
        /\ todo' = Tail(rest)
        /\ UNCHANGED <<retArgs, exitCode, afterFiles, commandPaths>>
        /\ EnvUnchanged /\ DeclUnchanged /\ GlobalsUnchanged

\* ConfigureOptions, lines 73-84: the passes of the loops up to and with the
\* next candidate that is there: it is read, or its stat fails.
ConfigureOptions_ReadNext ==
    \E rest \in {SkipAbsent(todo)} :
        /\ pc = "files"
        /\ rest # <<>>
        /\ ReadCandidate(rest)

\* ConfigureOptions, lines 85-88: no candidate is left; ProcessCommandLine
\* is called.  Its error is always nil; a parse error (or a panic at
\* binding) has ended the process inside pflag.
ProcessCommandLine ==
    \E r \in {ProcessCommandLineIn(Config, OsArgs)} :
        /\ pc = "files"
        /\ SkipAbsent(todo) = <<>>
        /\ todo' = <<>>
        /\ afterFiles' = Config
        /\ Config' = r.cfg
        /\ IF r.exited
           THEN /\ pc' = "aborted"
                /\ exitCode' \in {<<code>> : code \in r.codes}
                /\ UNCHANGED retArgs
           ELSE pc' = "post" /\ retArgs' = r.args /\ UNCHANGED exitCode
        /\ UNCHANGED <<err, line_no, commandPaths, readLog, beforeRead>>
        /\ EnvUnchanged /\ DeclUnchanged /\ GlobalsUnchanged

(***************************************************************************)
(* The usage display: ShowPod.                                             *)
(***************************************************************************)
RECURSIVE FindPodTextFrom(_, _, _)
\* The loop of FindPodText from paths[i] down: the first text that is there
\* and not empty.
FindPodTextFrom(PodMap, paths, i) ==
    IF i = 0 THEN ""
    ELSE IF paths[i] \in DOMAIN PodMap /\ PodMap[paths[i]] # "" THEN PodMap[paths[i]]
    ELSE FindPodTextFrom(PodMap, paths, i - 1)

\* FindPodText(): the PodMap text of the most specific command path.
FindPodText(PodMap, paths) == FindPodTextFrom(PodMap, paths, Len(paths))

ErrPodNotFound == "POD file not found."
ErrPodIsDir == "podfile is a directory"
ErrPodStat == "Error stat'ing file"
ErrPod2text == "Failure finding pod2text command."
ErrPod2textRun == "pod2text failed"
ErrNoPod == "No POD text or POD file found"

\* The directories FindPodFile searches, for package names n.
PodPaths(n) ==
    <<n.PackageDir \o "/share/pod/pod1/",
      "/usr/share/doc/" \o n.PkgName \o "/pod1/",
      "/usr/share/doc/" \o n.Package \o "/pod1/">>

RECURSIVE FindPodFileFrom(_, _, _, _)
\* The loop of FindPodFile from all[i] down, and lines 292-298: [path, err].
\* The first candidate that is there ends the search: a regular file is
\* the result, a directory an error; so is a stat that fails for another
\* reason than absence.  h.files are the regular files and h.dirs the
\* directories of the host, bad the paths os.Stat fails on.
FindPodFileFrom(h, bad, all, i) ==
    IF i = 0 THEN [path |-> "", err |-> ErrPodNotFound]
    ELSE IF all[i] \in bad THEN [path |-> "", err |-> ErrPodStat]
    ELSE IF all[i] \in h.dirs THEN [path |-> "", err |-> ErrPodIsDir]
    ELSE IF all[i] \in h.files THEN [path |-> all[i], err |-> ""]
    ELSE FindPodFileFrom(h, bad, all, i - 1)

\* FindPodFile(): [path, err].
FindPodFile(h, bad, n, paths) ==
    LET dirs == PodPaths(n)
        all  == Flatten([d \in 1..Len(dirs) |->
                            [c \in 1..Len(paths) |-> dirs[d] \o paths[c]]])
    IN  Once(LAMBDA found : found, FindPodFileFrom(h, bad, all, Len(all)))

\* exec.LookPath(file) with PATH=/usr/bin: "" when it is not found.
LookPath(commands, file) ==
    IF IndexOf(file, "/") # 0
    THEN (IF file \in commands THEN file ELSE "")
    ELSE IF "/usr/bin/" \o file \in commands THEN "/usr/bin/" \o file
    ELSE ""

\* ExecPath(command): /bin/command, else the search along PATH.
ExecPath(commands, command) ==
    IF LookPath(commands, "/bin/" \o command) # ""
    THEN LookPath(commands, "/bin/" \o command)
    ELSE LookPath(commands, command)

\* What a call of ShowPod did: the error it returned, the pager it started
\* ("" when none), where the text went and where it came from.
PodResult(error, pager, out, from) ==
    [err |-> error, pager |-> pager, out |-> out, from |-> from]

\* Lines 169-218 of ShowPod: the choice of the pager and the output, for
\* the text or the file found.  Without a pager the result of running
\* pod2text is returned; with one, the errors of the commands are dropped.
ShowPodPage(cfg, h, podText, podPath) ==
    LET nopage_opt == GetBoolOptIn(cfg, "noPage").value
        named == IF nopage_opt THEN ""
                 ELSE IF GetStringOptIn(cfg, "Pager").value # ""
                 THEN GetStringOptIn(cfg, "Pager").value
                 ELSE h.PAGER
        pager == IF named # "" THEN ExecPath(h.commands, named) ELSE ""
    IN  IF nopage_opt \/ pager = ""
        THEN (IF podPath = "" THEN PodResult("", "", "stdout", "text")
              ELSE PodResult(IF h.pod2textFails THEN ErrPod2textRun ELSE "",
                             "", "stdout", "pod2text"))
        ELSE PodResult("", pager, "pager", IF podPath = "" THEN "text" ELSE "pod2text")

\* ShowPod() on registry cfg and host h, for the command paths and package
\* names n given, bad being the paths os.Stat fails on.
ShowPodIn(cfg, h, bad, paths, n) ==
    LET podText == FindPodText(h.PodMap, paths)
        file    == FindPodFile(h, bad, n, paths)
    IN  IF podText # "" THEN ShowPodPage(cfg, h, podText, "")
        ELSE IF file.err # "" THEN PodResult(file.err, "", "", "")
        ELSE IF ExecPath(h.commands, "pod2text") = "" THEN PodResult(ErrPod2text, "", "", "")
        ELSE ShowPodPage(cfg, h, "", file.path)

ShowPod(cfg, h) ==
    ShowPodIn(cfg, h, statErr, GetCommandPaths(ProgramName, OsArgs0), Names)

\* Usage(): ShowPod, and pflag's list of the flags when ShowPod failed.
Usage(cfg, h) ==
    Once(LAMBDA r : [err |-> r.err, pager |-> r.pager, out |-> r.out, from |-> r.from,
                     defaults |-> r.err # ""],
         ShowPod(cfg, h))

\* Aggregates that take Quiet and Quieter from their options whatever
\* Debug and Verbose are.
Aggregates_QuietAlways(old, debug, verbose, quiet, quieter) ==
    [Debug |-> old.Debug \/ debug, Verbose |-> old.Verbose \/ debug \/ verbose,
     Quiet |-> quiet, Quieter |-> quieter]

\* Lines 90-104: the convenience globals after the option values debug,
\* verbose, quiet and quieter, old being the globals before.
Aggregates(old, debug, verbose, quiet, quieter) ==
    IF debug THEN [old EXCEPT !.Debug = TRUE, !.Verbose = TRUE]
    ELSE IF verbose THEN [old EXCEPT !.Verbose = TRUE]
    ELSE [old EXCEPT !.Quiet = quiet, !.Quieter = quieter]

\* A display choice that looks at Version first.
Display_VersionFirst(help, show_config, show_version) ==
    IF show_version THEN <<"version">>
    ELSE IF show_config THEN <<"config">>
    ELSE IF help THEN <<"usage">>
    ELSE <<>>

\* Lines 106-125: what is displayed before Exit(0), <<>> when nothing is.
Display(help, show_config, show_version) ==
    IF help THEN <<"usage">>
    ELSE IF show_config THEN <<"config">>
    ELSE IF show_version THEN <<"version">>
    ELSE <<>>

\* ConfigureOptions, lines 90-127: the convenience globals, then the help,
\* show-config and version displays, each ending the process with Exit(0).
ConfigureOptions_Finish ==
    \E g \in {Aggregates([Debug |-> Debug, Verbose |-> Verbose,
                          Quiet |-> Quiet, Quieter |-> Quieter],
                         GetBoolOpt("Debug").value, GetBoolOpt("Verbose").value,
                         GetBoolOpt("Quiet").value, GetBoolOpt("Quieter").value)} :
    \E display \in {Display(GetBoolOpt("Help").value, GetBoolOpt("ShowConfig").value,
                            GetBoolOpt("Version").value)} :
        /\ pc = "post"
        /\ Debug' = g.Debug
        /\ Verbose' = g.Verbose
        /\ Quiet' = g.Quiet
        /\ Quieter' = g.Quieter
        /\ shown' = shown \o display
        /\ pod' = IF display = <<"usage">> THEN <<Usage(Config, host)>> ELSE pod
        /\ IF display # <<>>
           THEN pc' = "exited" /\ exitCode' = <<0>>
           ELSE pc' = "returned" /\ UNCHANGED exitCode
        /\ UNCHANGED <<Config, todo, err, line_no, retArgs, commandPaths, afterFiles,
                       readLog, beforeRead>>
        /\ EnvUnchanged /\ DeclUnchanged

Next ==
    \/ ConfigureOptions_Begin
    \/ ConfigureOptions_ReadNext
    \/ ProcessCommandLine
    \/ ConfigureOptions_Finish

(***************************************************************************)
(* The registry on its own: declarations in any order.                     *)
(***************************************************************************)
\* A call of PackageInit(pkg_name, pkg_version) by the program: the package
\* names, ProgramName from os.Args[0], and the eight standard options, the
\* last of them Version.
PackageInit(pkg_name, pkg_version) ==
    /\ pc = "declare"
    /\ \E n \in {PackageNames(pkg_name, pkg_version)} :
           /\ PkgName' = n.PkgName
           /\ PkgVersion' = n.PkgVersion
           /\ Package' = n.Package
           /\ PackageDir' = n.PackageDir
           /\ PackageEtc' = n.PackageEtc
           /\ LocalEtc' = n.LocalEtc
    /\ ProgramName' = PathBase(OsArgs0)
    /\ Config' = PackageInitIn(Config)
    /\ lastDecl' = <<[name |-> "Version", kind |-> "bool", shortopt |-> "",
                      file |-> FALSE, value |-> <<FALSE>>,
                      desc |-> "Show version info."]>>
    /\ prevType' = TypeOf(PackageInitFirst(Config), "version")
    /\ UNCHANGED <<pc, err, OsArgs0, OsArgs, home, fs, statErr, cmdItems,
                   subCommands, host, flagCheck>>
    /\ PipeUnchanged /\ ReadUnchanged

\* How the program was started.
DeclArgs0 == {"tool", "/usr/bin/tool"}

\* The names a program declares options under, as written.
DeclNames == {"Retries", "retries", "RETRIES", "Name"}

\* The (shortopt, file, desc) of a declaration.
DeclAttrs == {<<"", TRUE, "first">>, <<"r", FALSE, "second">>}

StringDefaults == {"", "a"}
IntDefaults == {3, -1}
UintDefaults == {0, 7}

\* A host with no usage text, no POD file, no command and no $PAGER.
BareHost ==
    [PodMap |-> <<>>, files |-> {}, dirs |-> {}, commands |-> {},
     pod2textFails |-> FALSE, PAGER |-> ""]

\* The package names of the programs of the runs: PackageInit("pkg", "1.0").
StdNames == PackageNames("pkg", "1.0")

\* The package names are n.
NamesAre(n) ==
    /\ PkgName = n.PkgName
    /\ PkgVersion = n.PkgVersion
    /\ Package = n.Package
    /\ PackageDir = n.PackageDir
    /\ PackageEtc = n.PackageEtc
    /\ LocalEtc = n.LocalEtc

\* Everything but Config, the package names and the host, before
\* ConfigureOptions runs.
Quiescent ==
    /\ todo = <<>>
    /\ err = ""
    /\ line_no = 0
    /\ retArgs = <<>>
    /\ exitCode = <<>>
    /\ commandPaths = <<>>
    /\ lastDecl = <<>>
    /\ prevType = ""
    /\ readLog = <<>>
    /\ beforeRead = <<>>
    /\ afterFiles = <<>>
    /\ Verbose = FALSE /\ Quiet = FALSE /\ Quieter = FALSE /\ Debug = FALSE
    /\ shown = <<>>
    /\ pod = <<>>
    /\ flagCheck = <<>>

\* The same for a program that called PackageInit, on a host where ShowPod
\* finds nothing.
Idle == Quiescent /\ NamesAre(StdNames) /\ host = BareHost

\* A program that has called nothing yet.
InitDecl ==
    /\ Config = <<>>
    /\ pc = "declare"
    /\ NamesAre(NoPackageNames)
    /\ ProgramName = ""
    /\ OsArgs0 \in DeclArgs0
    /\ subCommands = <<>>
    /\ OsArgs = <<>>
    /\ cmdItems = <<>>
    /\ home = <<>>
    /\ fs = <<>>
    /\ statErr = {}
    /\ Quiescent
    /\ host = BareHost

NextDecl ==
    \/ PackageInit(StdNames.PkgName, StdNames.PkgVersion)
    \/ \E n \in DeclNames, a \in DeclAttrs, v \in StringDefaults :
           SetStringOpt(n, a[1], a[2], v, a[3])
    \/ \E n \in DeclNames, a \in DeclAttrs, v \in BOOLEAN :
           SetBoolOpt(n, a[1], a[2], v, a[3])
    \/ \E n \in DeclNames, a \in DeclAttrs, v \in IntDefaults :
           SetIntOpt(n, a[1], a[2], v, a[3])
    \/ \E n \in DeclNames, a \in DeclAttrs, v \in UintDefaults :
           SetUintOpt(n, a[1], a[2], v, a[3])

SpecDecl == InitDecl /\ [][NextDecl]_vars

(***************************************************************************)
(* ReadConfigFile on its own: the program declares its options and reads   *)
(* config files directly.                                                  *)
(***************************************************************************)
\* The lines a config file is made of, each with what its author meant:
\* kind is section | assign | noeq (no '=') | unknown (undeclared option) |
\* illegal (not file-allowed) | comment | blank; name is the section or the
\* canonical option name; slot and val are the value an assignment stores.
LineCat ==
    << [text |-> "[tool]", kind |-> "section", name |-> "tool", slot |-> "", val |-> <<>>],
       [text |-> "[other]", kind |-> "section", name |-> "other", slot |-> "", val |-> <<>>],
       [text |-> "retries = 9", kind |-> "assign", name |-> "retries",
        slot |-> "IntValue", val |-> <<9>>],
       [text |-> "name=a", kind |-> "assign", name |-> "name",
        slot |-> "StringValue", val |-> <<"a">>],
       [text |-> "  Verbose = yes", kind |-> "assign", name |-> "verbose",
        slot |-> "BoolValue", val |-> <<TRUE>>],
       [text |-> "noequals", kind |-> "noeq", name |-> "", slot |-> "", val |-> <<>>],
       [text |-> "bogus = 1", kind |-> "unknown", name |-> "bogus", slot |-> "", val |-> <<>>],
       [text |-> "help = true", kind |-> "illegal", name |-> "help", slot |-> "", val |-> <<>>],
       [text |-> "# note", kind |-> "comment", name |-> "", slot |-> "", val |-> <<>>],
       [text |-> "", kind |-> "blank", name |-> "", slot |-> "", val |-> <<>>] >>

\* The lines of the two-file runs.
TwoCat ==
    << [text |-> "[sub]", kind |-> "section", name |-> "sub", slot |-> "", val |-> <<>>],
       [text |-> "[other]", kind |-> "section", name |-> "other", slot |-> "", val |-> <<>>],
       [text |-> "retries = 5", kind |-> "assign", name |-> "retries",
        slot |-> "IntValue", val |-> <<5>>],
       [text |-> "Retries=7", kind |-> "assign", name |-> "retries",
        slot |-> "IntValue", val |-> <<7>>] >>

TextsOf(cat) == {cat[i].text : i \in 1..Len(cat)}

\* The program after its declarations, about to read config files.
Ready ==
    /\ Config = ProgramConfig
    /\ pc = "ready"
    /\ ProgramName = "tool"
    /\ OsArgs0 = "tool sub"
    /\ subCommands = <<"sub">>
    /\ OsArgs = <<>>
    /\ cmdItems = <<>>
    /\ home = <<>>
    /\ statErr = {}
    /\ Idle

InitRead ==
    /\ Ready
    /\ \E f \in SeqsUpTo(TextsOf(LineCat), MaxLines) :
           fs = [p \in {ConfPath(1)} |-> f]

NextRead == \E p \in DOMAIN fs \cup {MissingPath} : ReadConfigFile(p)

SpecRead == InitRead /\ [][NextRead]_vars

InitTwo ==
    /\ Ready
    /\ \E f1, f2 \in SeqsUpTo(TextsOf(TwoCat), MaxLines2) :
           fs = [p \in {ConfPath(1), ConfPath(2)} |->
                     IF p = ConfPath(1) THEN f1 ELSE f2]

NextTwo == \E p \in DOMAIN fs : ReadConfigFile(p)

SpecTwo == InitTwo /\ [][NextTwo]_vars

\* Texts for the value of a boolean option: every letter case of the eight
\* accepted words, and texts that are none of them.
UpperOf == [i \in 1..26 |-> Char(UpperLetters, i)]

UpperChar(c) ==
    IF \E i \in 1..26 : Char(LowerLetters, i) = c
    THEN UpperOf[CHOOSE i \in 1..26 : Char(LowerLetters, i) = c]
    ELSE c

RECURSIVE CaseVariants(_)
CaseVariants(w) ==
    IF w = "" THEN {""}
    ELSE {c \o r : c \in {Char(w, 1), UpperChar(Char(w, 1))},
                   r \in CaseVariants(Tail(w))}

TrueWords == {"t", "true", "yes", "1"}
FalseWords == {"f", "false", "no", "0"}
OtherTexts == {"maybe", "", "2", "on", "off", "y", "n", "tr", "yes ", "truee",
               "10", "nope", "00", "yes1"}

BoolTexts ==
    UNION {CaseVariants(w) : w \in TrueWords \cup FalseWords} \cup OtherTexts

\* The boolean options a file may set, as the file spells them.
BoolNames == {"Verbose", "page"}

BoolLine(name, text) == name \o " = " \o text

InitBool ==
    /\ Ready
    /\ \E n \in BoolNames, t \in BoolTexts :
           fs = [p \in {ConfPath(1)} |-> <<BoolLine(n, t)>>]

SpecBool == InitBool /\ [][NextRead]_vars

(***************************************************************************)
(* ConfigureOptions with a command line (Spec) and with several config     *)
(* files (SpecOrder).                                                      *)
(***************************************************************************)
RECURSIVE Join(_, _)
\* strings.Join
Join(tokens, sep) ==
    IF tokens = <<>> THEN ""
    ELSE IF Len(tokens) = 1 THEN tokens[1]
    ELSE tokens[1] \o sep \o Join(Tail(tokens), sep)

\* The items of a command line, each with what the user meant: kind is
\* flag | positional | unknown (no such flag) | badvalue (a value of the
\* wrong type) | passed (a token pflag passes over); name, slot and val are
\* the option a flag sets and its value.
ArgCat ==
    << [tokens |-> <<"--retries=12">>, kind |-> "flag", name |-> "retries",
        slot |-> "IntValue", val |-> <<12>>],
       [tokens |-> <<"-r", "5">>, kind |-> "flag", name |-> "retries",
        slot |-> "IntValue", val |-> <<5>>],
       [tokens |-> <<"--Retries", "3">>, kind |-> "flag", name |-> "retries",
        slot |-> "IntValue", val |-> <<3>>],
       [tokens |-> <<"--VERBOSE">>, kind |-> "flag", name |-> "verbose",
        slot |-> "BoolValue", val |-> <<TRUE>>],
       [tokens |-> <<"--verbose=false">>, kind |-> "flag", name |-> "verbose",
        slot |-> "BoolValue", val |-> <<FALSE>>],
       [tokens |-> <<"--name=b">>, kind |-> "flag", name |-> "name",
        slot |-> "StringValue", val |-> <<"b">>],
       [tokens |-> <<"--limit", "4">>, kind |-> "flag", name |-> "limit",
        slot |-> "UintValue", val |-> <<4>>],
       [tokens |-> <<"--limit=0x_1F">>, kind |-> "flag", name |-> "limit",
        slot |-> "UintValue", val |-> <<31>>],
       [tokens |-> <<"-r1_0">>, kind |-> "flag", name |-> "retries",
        slot |-> "IntValue", val |-> <<10>>],
       [tokens |-> <<"-test.v">>, kind |-> "passed", name |-> "",
        slot |-> "", val |-> <<>>],
       [tokens |-> <<"file1">>, kind |-> "positional", name |-> "",
        slot |-> "", val |-> <<>>],
       [tokens |-> <<"--bogus">>, kind |-> "unknown", name |-> "",
        slot |-> "", val |-> <<>>],
       [tokens |-> <<"--retries=abc">>, kind |-> "badvalue", name |-> "retries",
        slot |-> "", val |-> <<>>] >>

\* The config file of the command-line runs, and what it may hold.
CmdConfPath == "/etc/opt/pkg/tool.conf"
CmdBodies == {<<"retries = 9", "name=a">>, <<"  Verbose = yes">>, <<"noequals">>}

\* A candidate whose stat may fail.
CmdStatPath == "/home/u/.pkg/sub.conf"

Init ==
    /\ Config = ProgramConfig
    /\ pc = "ready"
    /\ ProgramName = "tool"
    /\ OsArgs0 = "tool sub"
    /\ subCommands = <<"sub">>
    /\ home = <<"/home/u">>
    /\ fs \in {<<>>} \cup {[p \in {CmdConfPath} |-> b] : b \in CmdBodies}
    /\ statErr \in {{}, {CmdStatPath}}
    /\ \E items \in SeqsUpTo(1..Len(ArgCat), MaxArgs) :
           /\ cmdItems = [i \in 1..Len(items) |-> ArgCat[items[i]]]
           /\ OsArgs = Flatten([i \in 1..Len(items) |-> ArgCat[items[i]].tokens])
    /\ Idle

Spec == Init /\ [][Next]_vars

\* What a config file of the several-file runs may hold.
OrderBodies == {<<"retries = 5">>, <<"Retries=7">>, <<"[other]", "retries = 5">>}

InitOrder ==
    /\ Config = ProgramConfig
    /\ pc = "ready"
    /\ \E prog \in {"tool", "pkg"}, subs \in {<<>>, <<"sub">>} :
           /\ ProgramName = prog
           /\ subCommands = subs
           /\ OsArgs0 = Join(<<prog>> \o subs, " ")
    /\ home \in {<<>>, <<"/home/u">>}
    /\ LET all == Candidates(StdNames, ProgramName, OsArgs0, home)
       IN  \E S \in SUBSET {all[i] : i \in 1..Len(all)} :
               /\ Cardinality(S) <= MaxFiles
               /\ fs \in [S -> OrderBodies]
    /\ statErr = {}
    /\ OsArgs = <<>>
    /\ cmdItems = <<>>
    /\ Idle

SpecOrder == InitOrder /\ [][Next]_vars

(***************************************************************************)
(* GetCommandPaths on its own.                                             *)
(***************************************************************************)
\* How the program was started, and the ProgramName PackageInit took from it.
Programs == {[arg0 |-> "tool", base |-> "tool"],
             [arg0 |-> "/usr/bin/ibapi", base |-> "ibapi"]}

SubTokens == {"host", "add", "x"}

InitPaths ==
    /\ Config = ProgramConfig
    /\ pc = "ready"
    /\ \E prog \in Programs, subs \in SeqsUpTo(SubTokens, MaxSubs) :
           /\ ProgramName = prog.base
           /\ subCommands = subs
           /\ OsArgs0 = Join(<<prog.arg0>> \o subs, " ")
    /\ home = <<>>
    /\ fs = <<>>
    /\ statErr = {}
    /\ OsArgs = <<>>
    /\ cmdItems = <<>>
    /\ Idle

\* A call of GetCommandPaths().
GetCommandPathsCall ==
    /\ pc = "ready"
    /\ commandPaths' = GetCommandPaths(ProgramName, OsArgs0)
    /\ UNCHANGED <<Config, pc, err, line_no, readLog, beforeRead>>
    /\ EnvUnchanged /\ PipeUnchanged /\ DeclUnchanged

NextPaths == GetCommandPathsCall

SpecPaths == InitPaths /\ [][NextPaths]_vars

(***************************************************************************)
(* Runs of ConfigureOptions that end in the globals and the displays       *)
(* (SpecShow).                                                             *)
(***************************************************************************)
\* A program that never called PackageInit and declares two options only:
\* its package names and ProgramName are empty.
BareConfig ==
    DeclBool(DeclBool(<<>>, "ShowConfig", "", FALSE, FALSE, "Show configuration settings"),
             "Quieter", "", TRUE, FALSE, "Quieter mode")

\* The tokens of the command lines.  pflag answers --help and -h itself
\* when no such flag is declared.
ShowTokens ==
    {"--help", "-h", "--showconfig", "--Version", "-d", "--verbose", "-q",
     "--quieter", "--bogus"}


\* What the config file may hold.
ShowBodies ==
    {<<"  Verbose = yes">>, <<"quiet = true", "Quieter = 1">>, <<"noequals">>,
     <<"Quieter = 1">>}

\* A config file of the program without package names: with PackageEtc and
\* LocalEtc empty, /sub.conf is a candidate, twice.
BareConfPath == "/sub.conf"

InitShow ==
    /\ \/ /\ Config = ProgramConfig
          /\ NamesAre(StdNames)
          /\ ProgramName = "tool"
          /\ fs \in {<<>>} \cup {[p \in {CmdConfPath} |-> b] : b \in ShowBodies}
       \/ /\ Config = BareConfig
          /\ NamesAre(NoPackageNames)
          /\ ProgramName = ""
          /\ fs \in {<<>>} \cup {[p \in {BareConfPath} |-> b] : b \in ShowBodies}
    /\ pc = "ready"
    /\ OsArgs0 = "tool sub"
    /\ subCommands = <<"sub">>
    /\ home = <<"/home/u">>
    /\ statErr = {}
    /\ OsArgs \in SeqsUpTo(ShowTokens, MaxArgs)
    /\ cmdItems = <<>>
    /\ Quiescent
    /\ host = BareHost

SpecShow == InitShow /\ [][Next]_vars

(***************************************************************************)
(* Reads of one assignment to a string option (SpecValue).                 *)
(***************************************************************************)
MaxBody == 4

\* What may stand after the '=': every text of blanks, '#', '=' and a
\* letter, and some longer lines.
ValueChars == {" ", "\t", "#", "=", "v"}
ValueBodies ==
    {Join(cs, "") : cs \in SeqsUpTo(ValueChars, MaxBody)}
    \cup {" value  # comment", " a#b # c", "a=b", " \t v w \t", " x #y #z"}

\* How the option may be spelled before the '='.
ValueKeys == {"name", "Name \t"}

InitValue ==
    /\ Ready
    /\ \E k \in ValueKeys, b \in ValueBodies :
           fs = [p \in {ConfPath(1)} |-> <<k \o "=" \o b>>]

SpecValue == InitValue /\ [][NextRead]_vars

(***************************************************************************)
(* Reads of assignments to int, uint and bool options, some with a text    *)
(* that is no value of the kind (SpecKinds).                               *)
(***************************************************************************)
\* The lines, each with the option it names and whether its text is a
\* value of the option's kind.
KindCat ==
    << [text |-> "retries = 7", name |-> "retries", good |-> TRUE],
       [text |-> "retries = abc", name |-> "retries", good |-> FALSE],
       [text |-> "Retries = 1x", name |-> "retries", good |-> FALSE],
       [text |-> "limit = 4", name |-> "limit", good |-> TRUE],
       [text |-> "limit = -1", name |-> "limit", good |-> FALSE],
       [text |-> "verbose = yes", name |-> "verbose", good |-> TRUE],
       [text |-> "verbose = maybe", name |-> "verbose", good |-> FALSE] >>

InitKinds ==
    /\ Ready
    /\ \E f \in SeqsUpTo(TextsOf(KindCat), MaxLines2) :
           fs = [p \in {ConfPath(1)} |-> f]

SpecKinds == InitKinds /\ [][NextRead]_vars

(***************************************************************************)
(* A program from its declarations to the end of ConfigureOptions          *)
(* (SpecLife).                                                             *)
(***************************************************************************)
\* The declarations the program may make after PackageInit, Verbose being
\* a redeclaration of a standard option; RETRIES takes the shorthand that
\* Verbose has.
LifeDecls ==
    {[name |-> "Retries", kind |-> "string", shortopt |-> "r", file |-> TRUE,
      value |-> "0", desc |-> "retries as text"],
     [name |-> "Retries", kind |-> "bool", shortopt |-> "", file |-> FALSE,
      value |-> FALSE, desc |-> "retry or not"],
     [name |-> "retries", kind |-> "int", shortopt |-> "r", file |-> TRUE,
      value |-> 3, desc |-> "retry count"],
     [name |-> "RETRIES", kind |-> "uint", shortopt |-> "v", file |-> TRUE,
      value |-> 7, desc |-> "retry limit"],
     [name |-> "Verbose", kind |-> "string", shortopt |-> "v", file |-> TRUE,
      value |-> "", desc |-> "verbosity as text"],
     [name |-> "verbose", kind |-> "bool", shortopt |-> "v", file |-> FALSE,
      value |-> TRUE, desc |-> "Verbose by default"],
     [name |-> "Verbose", kind |-> "int", shortopt |-> "", file |-> TRUE,
      value |-> 1, desc |-> "verbosity level"],
     [name |-> "VERBOSE", kind |-> "uint", shortopt |-> "v", file |-> TRUE,
      value |-> 2, desc |-> "verbosity limit"]}

LifeBodies ==
    {<<"retries = 9", "  Verbose = yes">>, <<"  Verbose = yes", "retries = 9">>}

LifeArgs == {<<>>, <<"--retries=12">>, <<"--verbose=1">>, <<"-r", "5", "-v">>}

InitLife ==
    /\ Config = PackageInitConfig
    /\ pc = "declare"
    /\ ProgramName = "tool"
    /\ OsArgs0 = "tool sub"
    /\ subCommands = <<"sub">>
    /\ home = <<"/home/u">>
    /\ fs \in {<<>>} \cup {[p \in {CmdConfPath} |-> b] : b \in LifeBodies}
    /\ statErr = {}
    /\ OsArgs \in LifeArgs
    /\ cmdItems = <<>>
    /\ Idle

\* The program has made its declarations and goes on to ConfigureOptions.
Declared ==
    /\ pc = "declare"
    /\ pc' = "ready"
    /\ UNCHANGED <<Config, err>>
    /\ EnvUnchanged /\ PipeUnchanged /\ DeclUnchanged /\ ReadUnchanged

NextLife ==
    \/ \E d \in LifeDecls :
           d.kind = "string" /\ SetStringOpt(d.name, d.shortopt, d.file, d.value, d.desc)
    \/ \E d \in LifeDecls :
           d.kind = "bool" /\ SetBoolOpt(d.name, d.shortopt, d.file, d.value, d.desc)
    \/ \E d \in LifeDecls :
           d.kind = "int" /\ SetIntOpt(d.name, d.shortopt, d.file, d.value, d.desc)
    \/ \E d \in LifeDecls :
           d.kind = "uint" /\ SetUintOpt(d.name, d.shortopt, d.file, d.value, d.desc)
    \/ Declared
    \/ ConfigureOptions_Begin
    \/ ConfigureOptions_ReadNext
    \/ ProcessCommandLine
    \/ ConfigureOptions_Finish

SpecLife == InitLife /\ [][NextLife]_vars

(***************************************************************************)
(* Runs that show the usage on hosts with and without pagers (SpecPod).    *)
(***************************************************************************)
\* What follows --help on the command line.
PodTokens == {"--page=false", "--Page", "--pager=less", "--pager=none"}

\* The usage texts the program put in PodMap, the POD files installed, the
\* commands installed, and $PAGER.
PodMaps == {<<>>, [p \in {"tool"} |-> "usage of tool"]}
PodCommandSets ==
    {{}, {"/bin/less"}, {"/usr/bin/more", "/usr/bin/pod2text"},
     {"/bin/less", "/usr/bin/more", "/bin/pod2text"}}
PodPagers == {"", "more"}

\* The POD file of the package, and the candidate FindPodFile looks at
\* before it.
PodFile == "/usr/share/doc/pkg/pod1/sub"
PodFileAbove == "/usr/share/doc/pkg-1.0/pod1/sub"

\* The POD files of a host: none; the file, with a pod2text that works or
\* fails; the file below a directory; the file below a path whose stat
\* fails.
PodSites ==
    {[files |-> {}, dirs |-> {}, bad |-> {}, pod2textFails |-> FALSE],
     [files |-> {PodFile}, dirs |-> {}, bad |-> {}, pod2textFails |-> FALSE],
     [files |-> {PodFile}, dirs |-> {}, bad |-> {}, pod2textFails |-> TRUE],
     [files |-> {PodFile}, dirs |-> {PodFileAbove}, bad |-> {}, pod2textFails |-> FALSE],
     [files |-> {PodFile}, dirs |-> {}, bad |-> {PodFileAbove}, pod2textFails |-> FALSE]}

\* What the config file may hold.
PodBodies == {<<"page = no">>, <<"Pager = more">>}

InitPod ==
    /\ Config = ProgramConfig
    /\ pc = "ready"
    /\ ProgramName = "tool"
    /\ OsArgs0 = "tool sub"
    /\ subCommands = <<"sub">>
    /\ home = <<>>
    /\ fs \in {<<>>} \cup {[p \in {CmdConfPath} |-> b] : b \in PodBodies}
    /\ \E rest \in SeqsUpTo(PodTokens, MaxArgs) : OsArgs = <<"--help">> \o rest
    /\ cmdItems = <<>>
    /\ \E site \in PodSites, map \in PodMaps, cmds \in PodCommandSets, pager \in PodPagers :
           /\ statErr = site.bad
           /\ host = [PodMap |-> map, files |-> site.files, dirs |-> site.dirs,
                      commands |-> cmds, pod2textFails |-> site.pod2textFails,
                      PAGER |-> pager]
    /\ NamesAre(StdNames)
    /\ Quiescent

SpecPod == InitPod /\ [][Next]_vars

(***************************************************************************)
(* CheckFlagValue on its own (SpecFlag).                                   *)
(***************************************************************************)
\* What the user gave for a flag, and the values a resource may have.
UserValues ==
    {"", "deleted", "DELETED", "active", "no", "NOT:deleted", "not:", "not:deleted",
     "not:Deleted", "not:active", "not:x", "not:none", "not:tonto", "not:not:x"}
ResourceValues == {"", "deleted", "Active", "x", "none", "e", "tonto", "not:x"}

InitFlag == Ready /\ fs = <<>>

\* A call of CheckFlagValue.
CheckFlagValueCall ==
    \E u \in UserValues, r \in ResourceValues, n \in BOOLEAN :
        /\ pc = "ready"
        /\ flagCheck' = <<[user_value |-> u, resource_value |-> r, not_specified |-> n,
                           result |-> CheckFlagValue(u, r, n)]>>
        /\ UNCHANGED <<Config, pc, err, PkgName, PkgVersion, Package, PackageDir,
                       PackageEtc, LocalEtc, ProgramName, OsArgs0, OsArgs, home, fs,
                       statErr, cmdItems, subCommands, host>>
        /\ PipeUnchanged /\ DeclUnchanged /\ ReadUnchanged

NextFlag == CheckFlagValueCall

SpecFlag == InitFlag /\ [][NextFlag]_vars

(***************************************************************************)
(* Claims about the registry (SpecDecl).                                   *)
(***************************************************************************)
\* The canonical name of a declared name, spelled out.
C9_Canon(name) ==
    CASE name \in {"Retries", "retries", "RETRIES"} -> "retries"
      [] name = "Name" -> "name"
      [] name = "Version" -> "version"

\* Spellings a caller may look a canonical name up under.
C9_Spellings(key) ==
    IF key = "retries" THEN {"retries", "Retries", "RETRIES", "rEtRiEs"}
    ELSE IF key = "version" THEN {"version", "Version", "VERSION", "vErSiOn"}
    ELSE {"name", "Name", "NAME", "nAmE"}

C9_Get(kind, name) ==
    CASE kind = "string" -> GetStringOpt(name)
      [] kind = "bool" -> GetBoolOpt(name)
      [] kind = "int" -> GetIntOpt(name)
      [] kind = "uint" -> GetUintOpt(name)

\* C9: right after a declaration (of any kind, under any spelling of the
\* name) the typed getter of that kind returns the declared default with no
\* error under every spelling of the name, the provenance is the default
\* tag (the code's "Default"), and the entry under the canonical name is
\* exactly the new declaration: nothing of an earlier entry remains.
C9_GetAfterDeclare ==
    lastDecl # <<>> =>
        LET d   == lastDecl[1]
            key == C9_Canon(d.name)
        IN  /\ key \in DOMAIN Config
            /\ Config[key] =
                   [Type |-> d.kind, ShortOpt |-> d.shortopt,
                    ConfigFile |-> d.file, Desc |-> d.desc,
                    StringValue |-> IF d.kind = "string" THEN d.value ELSE <<>>,
                    BoolValue |-> IF d.kind = "bool" THEN d.value ELSE <<>>,
                    IntValue |-> IF d.kind = "int" THEN d.value ELSE <<>>,
                    UintValue |-> IF d.kind = "uint" THEN d.value ELSE <<>>,
                    Source |-> "Default"]
            /\ \A nm \in C9_Spellings(key) :
                   C9_Get(d.kind, nm) = [value |-> d.value[1], err |-> ""]

\* A redeclaration, under an upper-case spelling, of a name that held an
\* option of another kind.
C9_Witness ==
    /\ lastDecl # <<>>
    /\ lastDecl[1].name = "RETRIES"
    /\ prevType \notin {"", lastDecl[1].kind}

(***************************************************************************)
(* Claims about ReadConfigFile (SpecRead, SpecTwo, SpecBool).              *)
(***************************************************************************)
\* What the author of a line meant by it.
Note(text) ==
    LET cat == LineCat \o TwoCat
    IN  cat[CHOOSE i \in 1..Len(cat) : cat[i].text = text]

SetMax(S) == CHOOSE m \in S : \A x \in S : x <= m
SetMin(S) == CHOOSE m \in S : \A x \in S : m <= x

\* Line i of file f lies under a section header whose name is not one of
\* the command paths.
GatedOff(f, i) ==
    LET hs == {j \in 1..(i - 1) : Note(f[j]).kind = "section"}
    IN  /\ hs # {}
        /\ Note(f[SetMax(hs)]).name \notin {commandPaths[k] : k \in 1..Len(commandPaths)}

\* The assignments to option o among the first n lines of f that no section
\* header gates off.
ActiveAssigns(f, n, o) ==
    {i \in 1..n : Note(f[i]).kind = "assign" /\ Note(f[i]).name = o /\ ~GatedOff(f, i)}

\* Option o after the first n lines of f were applied to registry before.
Applied(before, path, f, n, o) ==
    LET as == ActiveAssigns(f, n, o)
    IN  IF as = {} THEN before[o]
        ELSE LET e == Note(f[SetMax(as)])
             IN  [before[o] EXCEPT !.Source = "file:" \o path, ![e.slot] = e.val]

LastRead == readLog[Len(readLog)]
ReadAFile == readLog # <<>> /\ LastRead.path \in DOMAIN fs

\* C2: two config files read one after the other, both without error and
\* both assigning the same option in an active section: the option holds
\* the value the second file assigned last, and its provenance is "file:"
\* followed by the second file's path.
C2_LastFileWins ==
    (/\ Len(readLog) = 2
     /\ readLog[1].err = "" /\ readLog[2].err = "") =>
        LET p1 == readLog[1].path
            p2 == readLog[2].path
        IN  \A o \in DOMAIN Config :
                (/\ ActiveAssigns(fs[p1], Len(fs[p1]), o) # {}
                 /\ ActiveAssigns(fs[p2], Len(fs[p2]), o) # {}) =>
                    LET e == Note(fs[p2][SetMax(ActiveAssigns(fs[p2], Len(fs[p2]), o))])
                    IN  /\ Config[o][e.slot] = e.val
                        /\ Config[o].Source = "file:" \o p2

\* The first file set retries to 5, the second, read after it, to 7.
C2_Witness ==
    /\ Len(readLog) = 2
    /\ readLog[1].path = ConfPath(1) /\ readLog[2].path = ConfPath(2)
    /\ fs[ConfPath(1)] = <<"retries = 5">>
    /\ fs[ConfPath(2)] = <<"[sub]", "Retries=7">>
    /\ Config["retries"].IntValue = <<7>>
    /\ err = ""

\* A line of f that is no header and lies under a section that is not one
\* of the command paths.
C4_Skipped(f, i) == Note(f[i]).kind # "section" /\ GatedOff(f, i)

RECURSIVE C4_Kept(_, _)
\* File f from line i on without its skipped lines.
C4_Kept(f, i) ==
    IF i > Len(f) THEN <<>>
    ELSE (IF C4_Skipped(f, i) THEN <<>> ELSE <<f[i]>>) \o C4_Kept(f, i + 1)

\* C4: a read never returns an error at a non-header line under a section
\* that is not a command path, changes an option only if an assignment to
\* it stands where no such section gates it off, and ends exactly as the
\* read of the same file with every such line deleted.
C4_SectionGate ==
    ReadAFile =>
        LET f == fs[LastRead.path]
            r == ReadConfigFileIn(beforeRead, LastRead.path,
                                  [p \in {LastRead.path} |-> C4_Kept(f, 1)],
                                  commandPaths)
        IN  /\ (err # "" /\ line_no >= 1) => ~C4_Skipped(f, line_no)
            /\ \A o \in DOMAIN Config :
                   Config[o] # beforeRead[o] => ActiveAssigns(f, Len(f), o) # {}
            /\ r.cfg = Config
            /\ r.err = err

\* An assignment before any header is applied; under [other] a line naming
\* a valid option is skipped.
C4_Witness ==
    /\ ReadAFile
    /\ fs[LastRead.path] = <<"name=a", "[other]", "retries = 9">>
    /\ err = ""
    /\ Config["name"].StringValue = <<"a">>
    /\ Config["retries"] = beforeRead["retries"]
    /\ Config["retries"].IntValue = <<3>>

\* A line of f the code must refuse: no '=', an undeclared option, or an
\* option that is not file-allowed, in an active section.
C6_Bad(f, i) ==
    Note(f[i]).kind \in {"noeq", "unknown", "illegal"} /\ ~GatedOff(f, i)

C6_ErrorFor(kind) ==
    CASE kind = "noeq" -> ErrBadLine
      [] kind = "unknown" -> ErrUnknownOption
      [] kind = "illegal" -> ErrIllegalOption

\* C6: when a file holds such a line, the read returns its error at the
\* first of them, and every option is what the lines before it made of it:
\* the earlier assignments stay applied, the bad line and the lines after it
\* change nothing.
C6_AbortAtBadLine ==
    ReadAFile =>
        LET f   == fs[LastRead.path]
            bad == {i \in 1..Len(f) : C6_Bad(f, i)}
        IN  bad # {} =>
                LET b == SetMin(bad)
                IN  /\ err = C6_ErrorFor(Note(f[b]).kind)
                    /\ line_no = b
                    /\ DOMAIN Config = DOMAIN beforeRead
                    /\ \A o \in DOMAIN Config :
                           Config[o] = Applied(beforeRead, LastRead.path, f, b - 1, o)

\* An assignment, then a line with no '=', then another assignment.
C6_Witness ==
    /\ ReadAFile
    /\ fs[LastRead.path] = <<"retries = 9", "noequals", "name=a">>
    /\ beforeRead = ProgramConfig
    /\ err = ErrBadLine
    /\ Config["retries"].IntValue = <<9>>
    /\ Config["name"].StringValue = <<"">>

\* The canonical name of a boolean option as the file spells it.
C10_Key(name) == IF name = "Verbose" THEN "verbose" ELSE "page"

C10_TrueTexts == UNION {CaseVariants(w) : w \in TrueWords}
C10_FalseTexts == UNION {CaseVariants(w) : w \in FalseWords}

\* C10: a file assigning a boolean option sets it to true for every letter
\* case of t, true, yes, 1, to false for every letter case of f, false, no,
\* 0, and returns a parse error for any other text.
C10_BoolTexts ==
    \A n \in BoolNames, t \in BoolTexts :
        (ReadAFile /\ fs[LastRead.path] = <<BoolLine(n, t)>>) =>
            IF t \in C10_TrueTexts
            THEN err = "" /\ Config[C10_Key(n)].BoolValue = <<TRUE>>
            ELSE IF t \in C10_FalseTexts
            THEN err = "" /\ Config[C10_Key(n)].BoolValue = <<FALSE>>
            ELSE err = ErrUnknownValue

\* "Yes" made verbose, false by default, true.
C10_Witness ==
    /\ ReadAFile
    /\ fs[LastRead.path] = <<BoolLine("Verbose", "Yes")>>
    /\ beforeRead["verbose"].BoolValue = <<FALSE>>
    /\ Config["verbose"].BoolValue = <<TRUE>>
    /\ err = ""

(***************************************************************************)
(* Claims about whole runs of ConfigureOptions (Spec, SpecOrder).          *)
(***************************************************************************)
\* The command line was parsed without a failure.
Parsed ==
    \/ pc = "post"
    \/ pc = "returned" /\ err = ""
    \/ pc = "exited" /\ exitCode = <<0>>

\* The items of the command line that are flags of option o.
FlagItems(o) ==
    {i \in 1..Len(cmdItems) : cmdItems[i].kind = "flag" /\ cmdItems[i].name = o}

Supplied(o) == FlagItems(o) # {}

ValueSlots == {"StringValue", "BoolValue", "IntValue", "UintValue"}

\* C1: once the files were read and the command line parsed, every option
\* whose flag was supplied holds the value its last flag gave, whatever a
\* file set, and every other option holds exactly the value it had after
\* the last file was read.
C1_CommandLineWins ==
    Parsed =>
        \A o \in DOMAIN Config :
            IF Supplied(o)
            THEN LET e == cmdItems[SetMax(FlagItems(o))]
                 IN  Config[o][e.slot] = e.val
            ELSE \A slot \in ValueSlots : Config[o][slot] = afterFiles[o][slot]

\* The file set retries to 9 and name to a; --retries=12 was supplied:
\* retries is 12 and name stays a.
C1_Witness ==
    /\ Parsed
    /\ CmdConfPath \in DOMAIN fs
    /\ fs[CmdConfPath] = <<"retries = 9", "name=a">>
    /\ OsArgs = <<"--retries=12">>
    /\ afterFiles["retries"].IntValue = <<9>>
    /\ Config["retries"].IntValue = <<12>>
    /\ Config["name"].StringValue = <<"a">>

\* A command line that pflag refuses: an unknown flag, or a value of the
\* wrong type.
C7_ParseFails ==
    \E i \in 1..Len(cmdItems) : cmdItems[i].kind \in {"unknown", "badvalue"}

\* C7: a run whose command line cannot be parsed ends with ConfigureOptions
\* returning a non-nil error to its caller; the process is not ended.
C7_ParseFailureReturned ==
    (C7_ParseFails /\ pc \notin {"ready", "files"}) =>
        (pc = "returned" /\ err # "")

\* C8: after the parse an option's Source is "CommandLine" exactly when its
\* flag was supplied, also with the value it already had, and every other
\* option keeps the Source it had before the parse.
C8_CommandLineSource ==
    Parsed =>
        \A o \in DOMAIN Config :
            /\ (Config[o].Source = "CommandLine") <=> Supplied(o)
            /\ ~Supplied(o) => Config[o].Source = afterFiles[o].Source

\* --Retries 3 gives retries the value it has by default; verbose keeps the
\* Source of the file that set it, limit its "Default".
C8_Witness ==
    /\ Parsed
    /\ OsArgs = <<"--Retries", "3">>
    /\ CmdConfPath \in DOMAIN fs
    /\ fs[CmdConfPath] = <<"  Verbose = yes">>
    /\ afterFiles["retries"].IntValue = <<3>>
    /\ afterFiles["retries"].Source = "Default"
    /\ Config["retries"].IntValue = <<3>>
    /\ Config["retries"].Source = "CommandLine"
    /\ Config["verbose"].Source = "file:" \o CmdConfPath
    /\ Config["limit"].Source = "Default"

\* The place of config file p among ConfigDirs and among configFiles.
C3_DirIdx(p) ==
    LET dirs == ConfigDirsOf(Names, home)
    IN  CHOOSE d \in 1..Len(dirs) : HasPrefix(p, dirs[d] \o "/")

C3_FileIdx(p) ==
    LET files == ConfigFilesOf(PkgName, ProgramName, commandPaths)
    IN  CHOOSE f \in 1..Len(files) : HasSuffix(p, "/" \o files[f])

\* The pass of the loops that reads p: filename first, directory second.
C3_Rank(p) == C3_FileIdx(p) * 10 + C3_DirIdx(p)

\* When p was read.
C3_Pos(p) == CHOOSE i \in 1..Len(readLog) : readLog[i].path = p

\* The files that assign option o in an active section.
C3_Setters(o) == {p \in DOMAIN fs : ActiveAssigns(fs[p], Len(fs[p]), o) # {}}

\* The value the last active assignment of file p gives option o.
C3_Sets(p, o, cfg) ==
    LET e == Note(fs[p][SetMax(ActiveAssigns(fs[p], Len(fs[p]), o))])
    IN  cfg[o][e.slot] = e.val /\ cfg[o].Source = "file:" \o p

\* C3 as stated: of two files that set the same option, the one in the
\* later directory of ConfigDirs is read after the other and its value
\* remains, whatever their filenames.
C3_DirectoryOrder ==
    pc = "post" =>
        \A o \in DOMAIN Config : \A p1, p2 \in C3_Setters(o) :
            C3_DirIdx(p1) < C3_DirIdx(p2) =>
                /\ C3_Pos(p1) < C3_Pos(p2)
                /\ C3_Setters(o) = {p1, p2} => C3_Sets(p2, o, afterFiles)

\* C3: the files are read filename by filename in the order of configFiles
\* and, under one filename, directory by directory in the order of
\* ConfigDirs; an option holds the value of the last file read that sets it.
C3_FilenameThenDirectory ==
    pc = "post" =>
        /\ \A p1, p2 \in DOMAIN fs :
               C3_Rank(p1) < C3_Rank(p2) => C3_Pos(p1) < C3_Pos(p2)
        /\ \A o \in DOMAIN Config : \A p \in C3_Setters(o) :
               (\A q \in C3_Setters(o) : C3_Rank(q) <= C3_Rank(p))
                   => C3_Sets(p, o, afterFiles)

\* pkg.conf of the last directory is read before tool.conf of the first
\* one, and tool.conf's value remains.
C3_Witness ==
    /\ pc = "post"
    /\ ProgramName = "tool"
    /\ DOMAIN fs = {"/home/u/.pkg-1.0/pkg.conf", "/usr/site/pkg-1.0/etc/tool.conf"}
    /\ fs["/home/u/.pkg-1.0/pkg.conf"] = <<"retries = 5">>
    /\ fs["/usr/site/pkg-1.0/etc/tool.conf"] = <<"Retries=7">>
    /\ readLog[1].path = "/home/u/.pkg-1.0/pkg.conf"
    /\ readLog[2].path = "/usr/site/pkg-1.0/etc/tool.conf"
    /\ Config["retries"].IntValue = <<7>>

(***************************************************************************)
(* Claims about GetCommandPaths (SpecPaths).                               *)
(***************************************************************************)
\* GetCommandPaths was called.
C5_Called == commandPaths # <<>>

\* C5 as stated: the first entry is the program name and entry k + 1 is the
\* program name and the first k sub-commands joined by colons.
C5_PathsWithProgram ==
    C5_Called =>
        /\ Len(commandPaths) = 1 + Len(subCommands)
        /\ \A k \in 0..Len(subCommands) :
               commandPaths[k + 1] = Join(<<ProgramName>> \o SubSeq(subCommands, 1, k), ":")

\* C5: the first entry is the program name and entry k + 1, k >= 1, is the
\* first k sub-commands joined by colons, without the program name; the
\* list depends on the invocation tokens alone.
C5_CumulativeSubCommands ==
    C5_Called =>
        /\ Len(commandPaths) = 1 + Len(subCommands)
        /\ commandPaths[1] = ProgramName
        /\ \A k \in 1..Len(subCommands) :
               commandPaths[k + 1] = Join(SubSeq(subCommands, 1, k), ":")

\* "ibapi host add" gives ibapi, host, host:add.
C5_Witness ==
    /\ OsArgs0 = "/usr/bin/ibapi host add"
    /\ commandPaths = <<"ibapi", "host", "host:add">>

(***************************************************************************)
(* Claims about the end of ConfigureOptions (SpecShow).                    *)
(***************************************************************************)
\* Boolean option lc is declared and true.
OptTrue(lc) ==
    /\ lc \in DOMAIN Config
    /\ Config[lc].Type = "bool"
    /\ Config[lc].BoolValue = <<TRUE>>

\* The candidate files that exist, in the order they were read.
C11_AllFilesRead ==
    /\ {readLog[i].path : i \in 1..Len(readLog)} = DOMAIN fs
    /\ \A i \in 1..Len(readLog) : readLog[i].err = ""

\* The display the option values call for.
C11_Expected ==
    IF OptTrue("help") THEN <<"usage">>
    ELSE IF OptTrue("showconfig") THEN <<"config">>
    ELSE IF OptTrue("version") THEN <<"version">>
    ELSE <<>>

\* The run went through the whole of ConfigureOptions.
C11_Through == (pc = "returned" /\ err = "") \/ (pc = "exited" /\ exitCode = <<0>>)

\* C11: a display is shown only after every config file was read without
\* error and the command line was parsed; it is the one display the
\* precedence Help, ShowConfig, Version calls for, alone, and the process
\* then exits with code 0; a run that returns an error from file reading
\* shows nothing, and so does a run whose three options are all false.
C11_ShortCircuit ==
    /\ shown # <<>> =>
           /\ C11_AllFilesRead
           /\ todo = <<>>
           /\ pc = "exited" /\ exitCode = <<0>>
    /\ C11_Through => shown = C11_Expected
    /\ (pc = "exited" /\ exitCode = <<0>>) => Len(shown) = 1
    /\ (pc = "returned" /\ err # "") => shown = <<>>

\* The file was read, --Version and --help were both given: usage alone is
\* shown, and the process has exited with 0.
C11_Witness ==
    /\ OsArgs = <<"--Version", "--help">>
    /\ CmdConfPath \in DOMAIN fs
    /\ Len(readLog) = 1
    /\ OptTrue("version") /\ OptTrue("help")
    /\ shown = <<"usage">>
    /\ pc = "exited" /\ exitCode = <<0>>

\* C12: after ConfigureOptions, with option Debug true the aggregates Debug
\* and Verbose are true; else with option Verbose true the aggregate Verbose
\* is true; only with neither do Quiet and Quieter take their options'
\* values; an undeclared option counts as false and is no error; Quiet or
\* Quieter is never true together with Verbose.
C12_Aggregates ==
    /\ C11_Through =>
           IF OptTrue("debug") THEN Debug /\ Verbose /\ ~Quiet /\ ~Quieter
           ELSE IF OptTrue("verbose") THEN ~Debug /\ Verbose /\ ~Quiet /\ ~Quieter
           ELSE /\ ~Debug /\ ~Verbose
                /\ Quiet = OptTrue("quiet")
                /\ Quieter = OptTrue("quieter")
    /\ ~(Verbose /\ (Quiet \/ Quieter))

\* The file made quiet and quieter true, -d made debug true: Debug and
\* Verbose are set, Quiet and Quieter are not.
C12_Witness ==
    /\ C11_Through
    /\ OsArgs = <<"-d">>
    /\ OptTrue("debug") /\ OptTrue("quiet") /\ OptTrue("quieter")
    /\ Debug /\ Verbose /\ ~Quiet /\ ~Quieter

\* Debug, Verbose and Quiet are not declared; --quieter made Quieter true
\* and the run returned without an error.
C12_WitnessUndeclared ==
    /\ Config = [BareConfig EXCEPT !["quieter"].BoolValue = <<TRUE>>,
                                   !["quieter"].Source = "CommandLine"]
    /\ pc = "returned" /\ err = ""
    /\ Quieter /\ ~Quiet /\ ~Verbose /\ ~Debug

(***************************************************************************)
(* Claims about the text of a value (SpecValue).                           *)
(***************************************************************************)
RECURSIVE C13_AfterEq(_)
\* The text after the first '=' of a line.
C13_AfterEq(line) ==
    IF line = "" THEN ""
    ELSE IF Head(line) = "=" THEN Tail(line)
    ELSE C13_AfterEq(Tail(line))

RECURSIVE C13_NoComment(_, _, _)
\* Text t without its trailing comment, read from position i on; run is
\* where the blanks that reach up to i began, 0 when i follows no blank.
C13_NoComment(t, i, run) ==
    IF i > Len(t) THEN t
    ELSE IF SubSeq(t, i, i) \in {" ", "\t"}
    THEN C13_NoComment(t, i + 1, IF run = 0 THEN i ELSE run)
    ELSE IF SubSeq(t, i, i) = "#" /\ run # 0 THEN SubSeq(t, 1, run - 1)
    ELSE C13_NoComment(t, i + 1, 0)

RECURSIVE C13_NoLeadingBlanks(_)
C13_NoLeadingBlanks(t) ==
    IF t # "" /\ Head(t) \in {" ", "\t"} THEN C13_NoLeadingBlanks(Tail(t)) ELSE t

\* The value the line assigns.
C13_Value(line) == C13_NoLeadingBlanks(C13_NoComment(C13_AfterEq(line), 1, 0))

\* C13: the read of an assignment to a string option returns no error and
\* stores the text after the first '=' without its leading blanks and
\* without a trailing comment (blanks, '#', the rest): a '#' that follows
\* no blank, a later '=' and trailing blanks before no '#' all stay.
C13_StringValue ==
    ReadAFile =>
        /\ err = ""
        /\ Config["name"].StringValue = <<C13_Value(fs[LastRead.path][1])>>

\* "key = value  # comment" gives exactly "value".
C13_Witness ==
    /\ ReadAFile
    /\ fs[LastRead.path] = <<"name= value  # comment">>
    /\ Config["name"].StringValue = <<"value">>

\* The '#' after a stays, the later comment goes.
C13_WitnessHash ==
    /\ ReadAFile
    /\ fs[LastRead.path] = <<"Name \t= a#b # c">>
    /\ Config["name"].StringValue = <<"a#b">>

\* A later '=' stays, and so do trailing blanks.
C13_WitnessBlanks ==
    /\ ReadAFile
    /\ fs[LastRead.path] = <<"name= \t v w \t">>
    /\ Config["name"].StringValue = <<"v w \t">>

(***************************************************************************)
(* Claims about values that do not parse (SpecKinds).                      *)
(***************************************************************************)
C14_Note(text) == KindCat[CHOOSE i \in 1..Len(KindCat) : KindCat[i].text = text]

\* The first line of f whose text is no value of its option's kind, 0 when
\* there is none.
C14_FirstBad(f) ==
    IF \E i \in 1..Len(f) : ~C14_Note(f[i]).good
    THEN SetMin({i \in 1..Len(f) : ~C14_Note(f[i]).good})
    ELSE 0

\* The registry just before line b of file path: after the read of the
\* lines before it.
C14_Before(path, b) ==
    ReadConfigFileIn(beforeRead, path,
                     [p \in {path} |-> SubSeq(fs[path], 1, b - 1)],
                     commandPaths).cfg

\* C14: a read that fails to parse the value of an int, uint or bool option
\* returns an error and leaves that option as it was just before the
\* offending line, value and provenance.
C14_ParseErrorKeeps ==
    (ReadAFile /\ C14_FirstBad(fs[LastRead.path]) # 0) =>
        LET f == fs[LastRead.path]
            b == C14_FirstBad(f)
            o == C14_Note(f[b]).name
        IN  /\ err = ErrUnknownValue
            /\ line_no = b
            /\ Config[o] = C14_Before(LastRead.path, b)[o]

(***************************************************************************)
(* Claims about the shape of the registry (SpecLife).                      *)
(***************************************************************************)
\* The value slot of each kind.
C15_SlotOf(kind) ==
    CASE kind = "string" -> "StringValue"
      [] kind = "bool" -> "BoolValue"
      [] kind = "int" -> "IntValue"
      [] kind = "uint" -> "UintValue"

\* Option o has the slot of its kind populated and the other three empty.
C15_Typed(o) ==
    /\ o.Type \in {"string", "bool", "int", "uint"}
    /\ \A slot \in ValueSlots : (Len(o[slot]) = 1) <=> (slot = C15_SlotOf(o.Type))
    /\ \A slot \in ValueSlots : Len(o[slot]) <= 1
    /\ o.Type = "string" => o.StringValue[1] \in STRING
    /\ o.Type = "bool" => o.BoolValue[1] \in BOOLEAN
    /\ o.Type = "int" => o.IntValue[1] \in Int
    /\ o.Type = "uint" => o.UintValue[1] \in Nat

C15_Slots == \A n \in DOMAIN Config : C15_Typed(Config[n])

\* The kind, short flag, file-allowed flag and description of an option.
C15_Attrs(o) == <<o.Type, o.ShortOpt, o.ConfigFile, o.Desc>>

\* A step that is no declaration declares and removes no option and keeps
\* every option's attributes; a declaration changes the one entry it names.
C15_Step ==
    IF pc = "declare"
    THEN Config' # Config =>
             \A n \in DOMAIN Config :
                 n # ToLower(lastDecl'[1].name) => n \in DOMAIN Config' /\ Config'[n] = Config[n]
    ELSE /\ DOMAIN Config' = DOMAIN Config
         /\ \A n \in DOMAIN Config : C15_Attrs(Config'[n]) = C15_Attrs(Config[n])

\* C15: in every reachable state each option has exactly the value slot of
\* its kind populated, and no step of ReadConfigFile or ProcessCommandLine
\* changes an option's kind, short flag, file-allowed flag or description;
\* only a declaration under the option's name does.
C15_TypedAndImmutable == []C15_Slots /\ [][C15_Step]_vars

\* Verbose was redeclared as an int; the file's "yes" was refused and the
\* run returned the error, verbose still an int option.
C15_Witness ==
    /\ prevType = "bool"
    /\ Config["verbose"].Type = "int"
    /\ Len(readLog) = 1
    /\ pc = "returned" /\ err = ErrUnknownValue
    /\ Config["verbose"].IntValue = <<0>>
    /\ Config["verbose"].StringValue = <<>>

\* Retries was declared as a string; the file and the command line both
\* set it, and it is a string option with the command line's text.
C15_WitnessParsed ==
    /\ pc = "returned" /\ err = ""
    /\ "retries" \in DOMAIN Config
    /\ Config["retries"].Type = "string"
    /\ OsArgs = <<"--retries=12">>
    /\ afterFiles["retries"].StringValue = <<"9">>
    /\ Config["retries"].StringValue = <<"12">>
    /\ Config["retries"].IntValue = <<>>

(***************************************************************************)
(* Claims about paging (SpecPod).                                          *)
(***************************************************************************)
\* ShowPod ran and showed the usage.
C16_Shown == pod # <<>> /\ pod[1].err = ""

\* The pager the Pager option or $PAGER names is installed.
C16_PagerResolves ==
    LET named == IF Config["pager"].StringValue[1] # ""
                 THEN Config["pager"].StringValue[1] ELSE host.PAGER
    IN  \E dir \in {"/bin/", "/usr/bin/"} : dir \o named \in host.commands

\* C16: when option Page is false ShowPod starts no pager and writes the
\* usage to standard output, whatever the Pager option and $PAGER name;
\* when Page is true and a pager resolves, the usage goes through the pager.
C16_PageControlsPaging ==
    C16_Shown =>
        IF ~OptTrue("page") THEN pod[1].pager = "" /\ pod[1].out = "stdout"
        ELSE C16_PagerResolves => pod[1].pager # "" /\ pod[1].out = "pager"

(***************************************************************************)
(* Claims about CheckFlagValue (SpecFlag).                                 *)
(***************************************************************************)
\* Equal but for the case of the letters.
C17_Same(s, t) ==
    /\ Len(s) = Len(t)
    /\ \A i \in 1..Len(s) :
           \/ SubSeq(s, i, i) = SubSeq(t, i, i)
           \/ \E k \in 1..Len(UpperLetters) :
                  {SubSeq(s, i, i), SubSeq(t, i, i)}
                      = {SubSeq(UpperLetters, k, k), SubSeq(LowerLetters, k, k)}

\* C17: CheckFlagValue returns not_specified for an empty user_value; for
\* "not:" followed by v it returns true exactly when v differs from
\* resource_value beyond the case of letters, only those four characters
\* being removed; for any other user_value it returns true exactly when
\* user_value equals resource_value but for case.
C17_CheckFlagValue ==
    flagCheck # <<>> =>
        LET c == flagCheck[1]
            u == c.user_value
        IN  IF u = "" THEN c.result = c.not_specified
            ELSE IF Len(u) >= 4 /\ SubSeq(u, 1, 4) = "not:"
            THEN c.result = ~C17_Same(SubSeq(u, 5, Len(u)), c.resource_value)
            ELSE c.result = C17_Same(u, c.resource_value)

====
